---- MODULE Spec2Model ----
(***************************************************************************)
(* Model of the distribution / build-tag resolver                          *)
(* (tools/scripts/otel_layer_utils/distribution_utils.py) and of the       *)
(* component selector and dependency injection                             *)
(* (tools/scripts/build_extension_layer.py).                               *)
(*                                                                         *)
(* YAML values are modelled by what the code inspects of them: their       *)
(* Python type, their truthiness, and their content when they are a        *)
(* string or a list of strings.                                            *)
(***************************************************************************)
EXTENDS Integers, Sequences, FiniteSets, TLC

VARIABLES
    distributions_data,   \* the loaded distribution table (dict name -> dist_info)
    distribution_name,    \* the name resolve_build_tags is called with
    outcome,              \* what the top-level resolve_build_tags call produced
    active_build_tags,    \* the build's active tags (list)
    dependency_mappings,  \* the loaded component -> dependencies mapping (ordered)
    upstream_version,     \* the version add_dependencies is called with
    included_components,  \* what resolve_components_by_tags returned
    go_mod_edits,         \* module paths `go mod edit -require` was attempted for
    success_count,        \* add_dependencies' success_count
    go_mod_tidy,          \* whether `go mod tidy` was run
    go_mod_crashed,       \* whether the dependency loop ended in `except Exception`
    caller_visited,       \* the set a caller passes as resolve_build_tags' `visited`
    distributions_file,   \* the distributions YAML file load_distributions is given
    dependency_file,      \* config/component_dependencies.yaml as the build finds it
    load_result,          \* what the loader of the run did: returned or raised
    components_fs,        \* the custom `components` directory as the build finds it
    copied_components,    \* what selective_copy_components returned
    dry_run,              \* --dry-run of the publisher and of delete-layers
    architecture,         \* --architecture of the publisher
    make_public,          \* --make-public of the publisher
    layer_versions,       \* the versions of the constructed layer name in the region
    list_result,          \* how the publisher's list_layer_versions call ends
    dynamo_item,          \* how the get_item for the existing layer ARN ends
    skip_publish,         \* the publisher's skip_publish
    existing_layer_arn,   \* the publisher's existing_layer_arn
    layer_arn,            \* the publisher's layer_arn
    layer_arn_output,     \* the layer_arn GitHub output
    aws_calls,            \* the mutating AWS calls the publisher has made
    permission_result,    \* how make_layer_public's update_permissions ended
    force,                \* --force of delete-layers
    skip_dynamodb,        \* --skip-dynamodb of delete-layers
    confirmation,         \* what the user types at the confirmation prompt
    matching_layers,      \* the layers found: the number of versions of each
    layer_idx,            \* the layer delete_layers is at
    deleted_versions,     \* <<layer, version>> given to delete_layer_version
    deleted_records,      \* <<layer, version>> given to delete_dynamodb_record
    counts,               \* delete_layers' four counters
    dynamo_table,         \* how the DynamoDB table answers for a layer's ARN
    deleted_items,        \* <<layer, version>> whose item the table was told to delete
    relisted_data,        \* the table of the second call: the same, listed anew
    second_outcome,       \* what the second resolve_build_tags call produced
    call_stack,           \* the resolve_build_tags calls in progress, outermost first
    returning,            \* what the call that just ended returned or raised
    requests,             \* the name each concurrent invocation resolves
    visited_sets,         \* the `visited` set objects of the concurrent invocations
    stacks,               \* each invocation's calls in progress
    returnings,           \* each invocation's last ended call
    outcomes,             \* each invocation's outcome
    key_index,            \* each selector invocation's place in the mapping's keys
    included_lists,       \* each selector invocation's included_components
    position,             \* where each invocation is
    check,                \* run_command's check
    capture_github_env,   \* run_command's capture_github_env
    command,              \* what the command run_command is given does
    temp_files,           \* the temporary files of run_command that exist
    github_env_vars,      \* run_command's github_env_vars
    command_result,       \* how run_command ended
    entry,                \* the function of the local build the caller invoked
    inject_error_target,  \* LOCAL_BUILD_INJECT_ERROR ("" when unset)
    context,              \* the BuildContext of the run
    tracker,              \* StepTracker.status
    started_steps,        \* the indices given to tracker.start_step, in order
    temp_upstream_dir,    \* the otel-upstream- directory on disk
    raised,               \* the exception the last call ended with
    exit_code,            \* what the process exited with
    calls,                \* the functions of the local build called, in order
    pc                    \* position of the run

resolver_vars == <<distributions_data, distribution_name, outcome, caller_visited>>

build_inputs == <<active_build_tags, dependency_mappings, upstream_version>>

deps_vars == <<go_mod_edits, success_count, go_mod_tidy, go_mod_crashed>>

flow_vars == <<distributions_file, dependency_file, load_result, components_fs,
               copied_components>>

publisher_vars == <<dry_run, architecture, make_public, layer_versions, list_result, dynamo_item,
                    skip_publish, existing_layer_arn, layer_arn, layer_arn_output,
                    aws_calls, permission_result>>

delete_vars == <<force, skip_dynamodb, confirmation, matching_layers, layer_idx,
                 deleted_versions, deleted_records, counts, dynamo_table,
                 deleted_items>>

repeat_vars == <<relisted_data, second_outcome>>

descent_vars == <<call_stack, returning>>

concurrent_vars == <<requests, visited_sets, stacks, returnings, outcomes, key_index,
                     included_lists, position>>

command_vars == <<check, capture_github_env, command, temp_files, github_env_vars,
                  command_result>>

local_build_vars == <<entry, inject_error_target, context, tracker, started_steps,
                      temp_upstream_dir, raised, exit_code, calls>>

tool_vars == <<command_vars, local_build_vars>>

\* what a run of a tool's helper leaves alone
build_and_aws_vars == <<resolver_vars, build_inputs, included_components, deps_vars,
                        flow_vars, publisher_vars, delete_vars, repeat_vars,
                        descent_vars, concurrent_vars>>

\* what run_command leaves alone
not_command_vars == <<build_and_aws_vars, local_build_vars>>

\* what the local build leaves alone
not_local_build_vars == <<build_and_aws_vars, command_vars>>

other_vars == <<repeat_vars, descent_vars, concurrent_vars, tool_vars>>

vars == <<resolver_vars, build_inputs, included_components, deps_vars, flow_vars,
          publisher_vars, delete_vars, other_vars, pc>>

----------------------------------------------------------------------------
(* Bounds of the model *)

\* longest `buildtags` list of a distribution
MaxTagLen == 2

\* longest list of active build tags
MaxActive == 2

\* most keys of a dependency mapping
MaxKeys == 2

----------------------------------------------------------------------------
(* YAML / Python values *)

\* a key that the mapping does not hold
PyAbsent == [type |-> "absent", truthy |-> FALSE, str |-> "", items |-> <<>>]

\* YAML null, Python None
PyNone == [type |-> "none", truthy |-> FALSE, str |-> "", items |-> <<>>]

\* a Python str; the empty string is falsy
PyStr(s) == [type |-> "str", truthy |-> (s # ""), str |-> s, items |-> <<>>]

\* a Python int, by its truthiness: 0 is falsy, any other number is truthy
PyInt(nonzero) == [type |-> "int", truthy |-> nonzero, str |-> "", items |-> <<>>]

\* a Python list of strings; the empty list is falsy
PyList(seq) == [type |-> "list", truthy |-> (seq # <<>>), str |-> "", items |-> seq]

\* dict.get(key): None when the key is absent
DictGet(v) == IF v.type = "absent" THEN PyNone ELSE v

\* dict.get(key) where dict.get(key, default) is meant: the default is lost
DictGetDefaultDropped(v, default) == IF v.type = "absent" THEN PyNone ELSE v

\* dict.get(key, default)
DictGetDefault(v, default) == IF v.type = "absent" THEN default ELSE v

----------------------------------------------------------------------------
(* Inputs: distribution tables *)

\* names a distribution table may define
DistNames == {"a", "b", "c"}

\* the build-tag vocabulary, listed in ascending Python string order
TagOrder == <<"tag1", "tag2">>

Tags == {TagOrder[i] : i \in 1..Len(TagOrder)}

\* every list of tags of at most MaxTagLen elements (duplicates included)
TagLists == UNION {[1..n -> Tags] : n \in 0..MaxTagLen}

\* values of a distribution's `base` field: absent, the name of a
\* distribution, a truthy non-string (123) or a falsy non-string (0)
BaseValues == {PyAbsent, PyInt(TRUE), PyInt(FALSE)} \cup {PyStr(n) : n \in DistNames}

\* values of a distribution's `buildtags` field: absent, a list of tags,
\* a string ("notalist") or null
BuildtagsValues == {PyAbsent, PyStr("notalist"), PyNone} \cup {PyList(l) : l \in TagLists}

\* a distribution's mapping
DistInfos == [base : BaseValues, buildtags : BuildtagsValues]

EmptyTable == [n \in {} |-> PyNone]

\* the name a dist_info's `base` field leads to, "" when it leads nowhere
BaseTarget(info) ==
    IF info.base.type = "str" /\ info.base.truthy THEN info.base.str ELSE ""

\* the ways the table can define name n: not at all, or with any dist_info;
\* n = "" stands for "the chain has ended"
Definitions(n) ==
    IF n = "" THEN {EmptyTable}
    ELSE {EmptyTable} \cup {(n :> info) : info \in DistInfos}

\* the next name of the base chain after n, "" when the chain ends at n: n is
\* no key of t, its base leads nowhere, or leads to a name already seen
Follow(t, n, seen) ==
    IF n \in DOMAIN t /\ BaseTarget(t[n]) \in DistNames \ (seen \cup {n})
    THEN BaseTarget(t[n]) ELSE ""

\* the names the base chain from n refers to, in table t (n included)
RECURSIVE ChainNameSet(_, _, _)
ChainNameSet(t, n, seen) ==
    IF n \in seen \/ n \notin DOMAIN t \/ BaseTarget(t[n]) = ""
    THEN seen \cup {n}
    ELSE ChainNameSet(t, BaseTarget(t[n]), seen \cup {n})

\* a distribution the requested chain never refers to
Bystander == [base |-> PyAbsent, buildtags |-> PyList(<<"tag2">>)]

\* the names the model asks to resolve (the code treats names alike: it only
\* compares them)
RequestedNames == DistNames

\* t is a table the model resolves name n against: the distributions on the
\* base chain from n (DistNames has three names, so at most three), each with
\* any dist_info, and any set of distributions that chain does not refer to
IsTableFor(t, n) ==
    \E t1 \in Definitions(n) :
      \E t2 \in Definitions(Follow(t1, n, {})) :
        \E t3 \in Definitions(Follow(t2, Follow(t1, n, {}), {n})) :
          \E others \in SUBSET (DistNames \ ChainNameSet(t1 @@ t2 @@ t3, n, {})) :
            t = t1 @@ t2 @@ t3 @@ [m \in others |-> Bystander]

----------------------------------------------------------------------------
(* sorted(list(set)) on strings *)

TagRank(t) == CHOOSE i \in 1..Len(TagOrder) : TagOrder[i] = t

\* the least element of a non-empty set of tags
MinTag(S) == CHOOSE t \in S : \A u \in S : TagRank(t) <= TagRank(u)

\* Python's sorted(list(S)) for a set S of tags
RECURSIVE Sorted(_)
Sorted(S) == IF S = {} THEN <<>> ELSE <<MinTag(S)>> \o Sorted(S \ {MinTag(S)})

\* Python's set(l) for a list l
ToSet(l) == {l[i] : i \in 1..Len(l)}

----------------------------------------------------------------------------
(* distribution_utils.resolve_build_tags *)

\* a returned tag list; depth counts the nested calls the call made, itself
\* included
Returned(tags, depth) ==
    [ok |-> TRUE, tags |-> tags, kind |-> "none", at |-> "", chain |-> <<>>,
     depth |-> depth]

\* a raised DistributionError: its kind and the distribution its innermost
\* message names; chain lists, outermost first, the "Error resolving base
\* '<base>' for distribution '<dist>'" contexts wrapped around it
Raised(kind, name) ==
    [ok |-> FALSE, tags |-> <<>>, kind |-> kind, at |-> name, chain |-> <<>>,
     depth |-> 1]

\* a cycle answered with an empty tag list instead of an error
CircularDependencyIgnored(name) == Returned(<<>>, 1)

\* raise DistributionError("Circular dependency detected involving
\* distribution: <name>")
CircularDependencyError(name) == Raised("circular", name)

\* a missing distribution answered with an empty tag list instead of an error
NotFoundIgnored(name) == Returned(<<>>, 1)

\* raise DistributionError("Distribution '<name>' not found in configuration.")
NotFoundError(name) == Raised("not_found", name)

\* raise DistributionError("Invalid 'base' value for distribution '<name>':
\* Must be a string.")
InvalidBaseError(name) == Raised("bad_base", name)

\* raise DistributionError("Invalid 'buildtags' value for distribution
\* '<name>': Must be a list."), raised depth calls deep
InvalidBuildtagsError(name, depth) ==
    [Raised("bad_buildtags", name) EXCEPT !.depth = depth]

\* `if distribution_name in visited`
InVisitedNever(name, visited) == FALSE
InVisited(name, visited) == name \in visited

\* `dist_info is None`: the name is no key of the table
NotFound(name, data) == name \notin DOMAIN data

\* `if base_name:` the base is followed only when the value is truthy
HasBase(base_name) == base_name.truthy

\* isinstance(v, str)
IsStr(v) == v.type = "str"

\* isinstance(v, (list, str)): a string taken for a list
IsListOrStr(v) == v.type \in {"list", "str"}

\* isinstance(v, list)
IsList(v) == v.type = "list"

\* the except clause re-raising the base's error as it came, no context added
WrapErrorUnwrapped(e, name, base_name) == e

\* the except clause: the error of the base, with this level's context added
WrapError(e, name, base_name) ==
    [e EXCEPT !.chain = <<[dist |-> name, base |-> base_name]>> \o e.chain,
              !.depth = e.depth + 1]

\* base_tags_list + current_tags_list: no set, no sort
MergeTagsConcatenated(base_tags, current_tags_list) == base_tags \o current_tags_list

\* the merge without the sort: the base's tags, then the new ones as listed
MergeTagsAsListed(base_tags, current_tags_list) ==
    LET New(t) == t \notin ToSet(base_tags)
        fresh == SelectSeq(current_tags_list, New)
    IN  base_tags \o fresh

\* set(current_tags_list), base_tags.union(current_tags), sorted(list(...))
MergeTags(base_tags, current_tags_list) ==
    Sorted(ToSet(base_tags) \cup ToSet(current_tags_list))

\* the part of the call after the base was resolved to base_tags
OwnTags(name, dist_info, base_tags, depth) ==
    LET current_tags_list == DictGetDefault(dist_info.buildtags, PyList(<<>>))
    IN  IF ~IsList(current_tags_list)
        THEN InvalidBuildtagsError(name, depth)
        ELSE Returned(MergeTags(base_tags, current_tags_list.items), depth)

RECURSIVE resolve_build_tags(_, _, _)
resolve_build_tags(name, data, visited) ==
    IF InVisited(name, visited) THEN CircularDependencyError(name)
    ELSE IF NotFound(name, data) THEN NotFoundError(name)
    ELSE
        LET dist_info == data[name]
            base_name == DictGet(dist_info.base)
        IN  IF ~HasBase(base_name) THEN OwnTags(name, dist_info, <<>>, 1)
            ELSE IF ~IsStr(base_name) THEN InvalidBaseError(name)
            ELSE
                LET r == resolve_build_tags(base_name.str, data, visited \cup {name})
                IN  IF r.ok
                    THEN OwnTags(name, dist_info, r.tags, r.depth + 1)
                    ELSE WrapError(r, name, base_name.str)

----------------------------------------------------------------------------
(* build_extension_layer.resolve_components_by_tags                        *)
(*                                                                         *)
(* A tag or a mapping key is the sequence of its dot-separated segments:   *)
(* "lambdacomponents.connector.all" is <<"lambdacomponents", "connector",  *)
(* "all">>.                                                                *)

\* "lambdacomponents.all"
GlobalAllTag == <<"lambdacomponents", "all">>

\* s.endswith(".all"): a last segment "all" with a dot before it
EndsWithDotAll(s) == Len(s) >= 2 /\ s[Len(s)] = "all"

\* tag.rsplit(".", 1)[0]: the tag without its last segment
RSplitHead(tag) == SubSeq(tag, 1, Len(tag) - 1)

\* s.startswith(f"{category}.")
StartsWithCategory(s, category) ==
    Len(s) > Len(category) /\ SubSeq(s, 1, Len(category)) = category

\* x in list
InList(x, list) == \E i \in 1..Len(list) : list[i] = x

\* the literal misspelt: "lambdacomponent.all" in active_build_tags
has_global_all_misspelt(active_tags) == InList(<<"lambdacomponent", "all">>, active_tags)

\* has_global_all = "lambdacomponents.all" in active_build_tags
has_global_all(active_tags) == InList(GlobalAllTag, active_tags)

\* the keys of category_all_tags: the category of every active tag that ends
\* in ".all", "lambdacomponents.all" excepted
category_all_tags(active_tags) ==
    { RSplitHead(active_tags[i]) :
        i \in { j \in 1..Len(active_tags) :
                  /\ EndsWithDotAll(active_tags[j])
                  /\ active_tags[j] # GlobalAllTag } }

\* the third rule without its `not component_tag.endswith(".all")`
CategoryMatchKeepingAll(component_tag, categories) ==
    \E category \in categories : StartsWithCategory(component_tag, category)

\* the third rule with all() where any() is meant: true of no categories
CategoryMatchEveryCategory(component_tag, categories) ==
    \A category \in categories :
        /\ StartsWithCategory(component_tag, category)
        /\ ~EndsWithDotAll(component_tag)

\* the third rule: some category with an active "all" tag is a prefix of the
\* component tag, and the component tag does not end in ".all"
CategoryMatch(component_tag, categories) ==
    \E category \in categories :
        /\ StartsWithCategory(component_tag, category)
        /\ ~EndsWithDotAll(component_tag)

\* the loop body without its first branch, the direct match
should_include_by_wildcard_only(component_tag, active_tags) ==
    \/ has_global_all(active_tags)
    \/ CategoryMatch(component_tag, category_all_tags(active_tags))

\* should_include, after the if / elif / else of the loop body
should_include(component_tag, active_tags) ==
    \/ InList(component_tag, active_tags)
    \/ has_global_all(active_tags)
    \/ CategoryMatch(component_tag, category_all_tags(active_tags))

\* mappings.keys(), in the mapping's order
MappingKeys(mappings) ==
    [i \in 1..Len(mappings) |-> mappings[i].key]

resolve_components_by_tags(active_tags, mappings) ==
    LET Include(component_tag) == should_include(component_tag, active_tags)
    IN  SelectSeq(MappingKeys(mappings), Include)

----------------------------------------------------------------------------
(* Inputs: active build tags and dependency mappings *)

\* tags a build may activate: the global wildcard, two category wildcards,
\* two components, a wildcard of another domain, a four-segment wildcard
ActiveTagUniverse ==
    << GlobalAllTag,
       <<"lambdacomponents", "connector", "all">>,
       <<"lambdacomponents", "exporter", "all">>,
       <<"lambdacomponents", "connector", "aws">>,
       <<"lambdacomponents", "exporter", "clickhouse">>,
       <<"other", "all">>,
       <<"lambdacomponents", "connector", "aws", "all">> >>

\* the lists of at most MaxActive active tags. The code reads the list only
\* through `in` and through one loop that fills a dict, so one list stands
\* for all its reorderings and repetitions
ActiveTagLists ==
    { [i \in 1..Len(idx) |-> ActiveTagUniverse[idx[i]]] :
        idx \in { f \in UNION {[1..n -> 1..Len(ActiveTagUniverse)] : n \in 0..MaxActive} :
                    \A i \in 1..(Len(f) - 1) : f[i] < f[i + 1] } }

\* what component_dependencies.yaml may declare for a key: a list of module
\* paths, one module path, an empty list, an empty string, or a value that is
\* neither (null)
DependencyCatalog(key) ==
    CASE key = <<"lambdacomponents", "connector", "aws">> -> PyList(<<"modA">>)
      [] key = <<"lambdacomponents", "connector", "gcp">> -> PyList(<<"modA", "modB">>)
      [] key = <<"lambdacomponents", "exporter", "clickhouse">> -> PyStr("")
      [] key = <<"lambdacomponents", "connector", "all">> -> PyList(<<>>)
      [] key = <<"lambdacomponents", "connector", "aws", "all">> -> PyStr("modB")
      [] key = <<"lambdacomponents", "connector", "all", "x">> -> PyNone
      [] key = <<"lambdacomponents", "connector">> -> PyList(<<"modC">>)
      [] key = <<"other", "receiver", "z">> -> PyStr("modC")

\* keys a dependency mapping may hold: three-segment components of two
\* categories, a key whose third segment is "all", four-segment keys, a
\* two-segment key, a key of another domain
KeyUniverse ==
    { <<"lambdacomponents", "connector", "aws">>,
      <<"lambdacomponents", "connector", "gcp">>,
      <<"lambdacomponents", "exporter", "clickhouse">>,
      <<"lambdacomponents", "connector", "all">>,
      <<"lambdacomponents", "connector", "aws", "all">>,
      <<"lambdacomponents", "connector", "all", "x">>,
      <<"lambdacomponents", "connector">>,
      <<"other", "receiver", "z">> }

\* the keys in ascending Python string order
KeyOrder ==
    << <<"lambdacomponents", "connector">>,
       <<"lambdacomponents", "connector", "all">>,
       <<"lambdacomponents", "connector", "all", "x">>,
       <<"lambdacomponents", "connector", "aws">>,
       <<"lambdacomponents", "connector", "aws", "all">>,
       <<"lambdacomponents", "connector", "gcp">>,
       <<"lambdacomponents", "exporter", "clickhouse">>,
       <<"other", "receiver", "z">> >>

KeyRank(k) == CHOOSE i \in 1..Len(KeyOrder) : KeyOrder[i] = k

\* the key lists of a dict: no key twice
KeyLists ==
    { ks \in UNION {[1..n -> KeyUniverse] : n \in 0..MaxKeys} :
        \A i, j \in 1..Len(ks) : i # j => ks[i] # ks[j] }

MappingOf(ks) ==
    [i \in 1..Len(ks) |-> [key |-> ks[i], value |-> DependencyCatalog(ks[i])]]

\* main() lets only a non-empty version through; add_dependencies checks again
UpstreamVersions == {"", "0.119.0"}

----------------------------------------------------------------------------
(* build_extension_layer.add_dependencies *)

\* mappings.get(component_tag), for a key of the mapping
MappingGet(mappings, component_tag) ==
    mappings[CHOOSE i \in 1..Len(mappings) :
                            mappings[i].key = component_tag].value

\* what one component adds to modules_to_add: a list's items, a string
\* itself, nothing (a warning) for any other value
ModulesOf(modules) ==
    IF IsList(modules) THEN ToSet(modules.items)
    ELSE IF IsStr(modules) THEN {modules.str}
    ELSE {}

\* modules_to_add after the loop over components_to_include
modules_to_add(components_to_include, mappings) ==
    UNION { ModulesOf(MappingGet(mappings, components_to_include[i])) :
              i \in 1..Len(components_to_include) }

\* The loop `for module_path in modules_to_add` visits the set in an order of
\* Python's choosing. One run_command(["go", "mod", "edit", ...]) ends with
\* exit code 0, with a CalledProcessError (caught per module: the loop goes
\* on) or with any other exception (caught by the function's outer `except
\* Exception`: the loop ends, `go mod tidy` is skipped). A run of the loop is
\* therefore: the modules tried, those among them that were added, and
\* whether the last one tried crashed.
LoopRuns(modules) ==
    { [tried |-> modules, added |-> ok, crashed |-> FALSE] : ok \in SUBSET modules }
    \cup
    UNION { { [tried |-> before \cup {m}, added |-> ok, crashed |-> TRUE] :
                before \in SUBSET (modules \ {m}), ok \in SUBSET (modules \ {m}) }
            : m \in modules }

----------------------------------------------------------------------------
(* YAML files and their loaders *)

\* a YAML document's root as the loaders inspect it: its Python type, its
\* truthiness, the table it holds when it is a mapping of distributions
RootNone == [type |-> "none", truthy |-> FALSE, table |-> EmptyTable]

RootList(nonempty) == [type |-> "list", truthy |-> nonempty, table |-> EmptyTable]

RootScalar(type, truthy) == [type |-> type, truthy |-> truthy, table |-> EmptyTable]

RootDict(t) == [type |-> "dict", truthy |-> (DOMAIN t # {}), table |-> t]

\* a path where no file is
MissingFile == [exists |-> FALSE, parses |-> FALSE, root |-> RootNone]

\* a file yaml.safe_load raises yaml.YAMLError on ("invalid: [unclosed")
UnparsableFile == [exists |-> TRUE, parses |-> FALSE, root |-> RootNone]

\* a file yaml.safe_load returns root for; an empty file gives None
ParsedFile(root) == [exists |-> TRUE, parses |-> TRUE, root |-> root]

\* roots that are no mapping: a list (empty, non-empty), a string, a number
\* (0, non-zero)
NonMappingRoots ==
    { RootList(FALSE), RootList(TRUE), RootScalar("str", TRUE),
      RootScalar("int", FALSE), RootScalar("int", TRUE) }

\* distributions files without a usable table
OddDistributionsFiles ==
    {MissingFile, UnparsableFile, ParsedFile(RootNone)}
    \cup {ParsedFile(r) : r \in NonMappingRoots}

\* f is a distributions file the model loads before resolving n: a file
\* without a usable table, or a mapping that defines n in any way (or not at
\* all) beside any set of other distributions
IsDistributionsFileFor(f, n) ==
    \/ f \in OddDistributionsFiles
    \/ \E t1 \in Definitions(n) :
         \E others \in SUBSET (DistNames \ {n}) :
           f = ParsedFile(RootDict(t1 @@ [m \in others |-> Bystander]))

\* the value of the `dependencies` key of component_dependencies.yaml: its
\* type, and the component -> modules mapping when it is a mapping
DependenciesValue(type, mappings) == [type |-> type, mappings |-> mappings]

NoDependencies == DependenciesValue("absent", <<>>)

\* the root of component_dependencies.yaml as load_component_dependencies
\* inspects it: type, truthiness, whether `"dependencies" in data` holds, and
\* the value under that key
DepRoot(type, truthy, has_dependencies, dependencies) ==
    [type |-> type, truthy |-> truthy, has_dependencies |-> has_dependencies,
     dependencies |-> dependencies]

DepRootNone == DepRoot("none", FALSE, FALSE, NoDependencies)

MissingDependencyFile == [exists |-> FALSE, parses |-> FALSE, root |-> DepRootNone]

UnparsableDependencyFile == [exists |-> TRUE, parses |-> FALSE, root |-> DepRootNone]

\* roots without a `dependencies` mapping: empty content, {}, a mapping of
\* other keys, a list or a string that `"dependencies" in data` is false of, a
\* list (["dependencies"]) or a string ("dependencies") it is true of, and a
\* `dependencies` key holding null, a list or a string
MalformedDepRoots ==
    { DepRootNone,
      DepRoot("dict", FALSE, FALSE, NoDependencies),
      DepRoot("dict", TRUE, FALSE, NoDependencies),
      DepRoot("list", TRUE, FALSE, NoDependencies),
      DepRoot("str", TRUE, FALSE, NoDependencies),
      DepRoot("list", TRUE, TRUE, NoDependencies),
      DepRoot("str", TRUE, TRUE, NoDependencies),
      DepRoot("dict", TRUE, TRUE, DependenciesValue("none", <<>>)),
      DepRoot("dict", TRUE, TRUE, DependenciesValue("list", <<>>)),
      DepRoot("dict", TRUE, TRUE, DependenciesValue("str", <<>>)) }

\* dependency files that do not give a mapping
OddDependencyFiles ==
    {MissingDependencyFile, UnparsableDependencyFile}
    \cup {ParsedFile(r) : r \in MalformedDepRoots}

\* a well-formed file: `dependencies` maps the keys ks
DependencyFileOf(ks) ==
    ParsedFile(DepRoot("dict", TRUE, TRUE, DependenciesValue("dict", MappingOf(ks))))

\* the key lists of the files the build loads: the build reads the mapping
\* through the selector and through a set of modules, so one file stands for
\* the files that list the same keys in another order
SortedKeyLists ==
    { ks \in KeyLists : \A i \in 1..(Len(ks) - 1) : KeyRank(ks[i]) < KeyRank(ks[i + 1]) }

\* f is a component_dependencies.yaml the build may find
DependencyFiles == OddDependencyFiles \cup {DependencyFileOf(ks) : ks \in SortedKeyLists}

\* load_component_dependencies returned mappings
DepsReturned(mappings) == [raised |-> FALSE, mappings |-> mappings]

\* load_component_dependencies let an exception out
DepsRaised == [raised |-> TRUE, mappings |-> <<>>]

\* the file is missing: a DistributionError, as load_distributions raises
FileNotFoundRaised == DepsRaised

\* lines 45-50: the file is missing: a warning, and {} is returned
FileNotFoundWarned == DepsReturned(<<>>)

\* `except yaml.YAMLError` and `except Exception`: an error is `error(...)`ed
\* and {} is returned
ErrorCaught == DepsReturned(<<>>)

\* `not data or "dependencies" not in data`
LacksDependencies(root) == ~root.truthy \/ ~root.has_dependencies

\* data["dependencies"] on a list or a string: TypeError
SubscriptRaises(root) == root.type # "dict"

\* `not isinstance(data["dependencies"], dict)`
DependenciesNotDict(root) == root.dependencies.type # "dict"

\* build_extension_layer.load_component_dependencies
load_component_dependencies(file) ==
    IF ~file.exists THEN FileNotFoundWarned
    ELSE IF ~file.parses THEN ErrorCaught
    ELSE IF LacksDependencies(file.root) THEN DepsReturned(<<>>)
    ELSE IF SubscriptRaises(file.root) THEN ErrorCaught
    ELSE IF DependenciesNotDict(file.root) THEN DepsReturned(<<>>)
    ELSE DepsReturned(file.root.dependencies.mappings)

\* the loader has not run
NotLoaded == [done |-> FALSE, raised |-> FALSE, kind |-> "", root |-> RootNone]

\* the loader returned root
LoadReturned(root) == [done |-> TRUE, raised |-> FALSE, kind |-> "", root |-> root]

\* the loader raised
LoadRaised(kind) == [done |-> TRUE, raised |-> TRUE, kind |-> kind, root |-> RootNone]

\* `if not distributions_data`
IsEmptyOrInvalid(root) == ~root.truthy

\* distribution_utils.load_distributions. The DistributionError of line 27 is
\* raised inside the try, caught by `except Exception` and raised again as a
\* DistributionError "Error reading ..."
load_distributions(file) ==
    IF ~file.exists THEN LoadRaised("file_not_found")
    ELSE IF ~file.parses THEN LoadRaised("parse_error")
    ELSE IF IsEmptyOrInvalid(file.root) THEN LoadRaised("empty_or_invalid")
    ELSE LoadReturned(file.root)

----------------------------------------------------------------------------
(* Layer versions and ARNs of the publisher *)

\* most versions a layer has
MaxVersions == 2

\* a layer version ARN: of an existing version (by its place in the listing),
\* of a newly published version, the ARN publish_layer makes up in a dry
\* run, or None
Arn(kind, place) == [kind |-> kind, place |-> place]

NoArn == Arn("none", 0)

\* What a listed version's Description is: absent (read as ""), "md5: <the
\* artifact's hash> ...", or "md5: <another hash> ..."
Descriptions == {"", "md5: current", "md5: other"}

\* `current_md5 in layer["Description"]`
Md5InDescription(description) == description = "md5: current"

\* the listings list_layer_versions may give, latest version first
VersionListings == UNION {[1..n -> Descriptions] : n \in 0..MaxVersions}

\* How the paginated list_layer_versions ends: with the listing, with
\* ResourceNotFoundException (the layer has no version), or with another
\* ClientError or exception
ListResults(versions) ==
    IF versions = <<>> THEN {"listed", "not_found", "error"} ELSE {"listed", "error"}

\* get_item for the existing ARN: the item, no item, or an exception
DynamoItems == {"item", "no_item", "error"}

\* make_layer_public has not been called
NotAsked == "not_asked"

\* `--architecture` has no default: main's architecture is None without it
NoArchitecture == "None"

\* what main's architecture may be
Architectures == {NoArchitecture, "amd64", "arm64"}

\* a run that is not the publisher's
NoPublisher ==
    /\ dry_run = FALSE
    /\ architecture = NoArchitecture
    /\ make_public = FALSE
    /\ layer_versions = <<>>
    /\ list_result = "listed"
    /\ dynamo_item = "no_item"
    /\ skip_publish = FALSE
    /\ existing_layer_arn = NoArn
    /\ layer_arn = NoArn
    /\ layer_arn_output = NoArn
    /\ aws_calls = {}
    /\ permission_result = NotAsked

\* most layers a pattern matches
MaxLayers == 2

\* delete_layers' counters before the first layer
NoCounts ==
    [lambda_success |-> 0, lambda_failure |-> 0, dynamo_success |-> 0, dynamo_failure |-> 0]

\* a run that is not delete-layers'
NoDelete ==
    /\ force = FALSE
    /\ skip_dynamodb = FALSE
    /\ confirmation = ""
    /\ matching_layers = <<>>
    /\ layer_idx = 0
    /\ deleted_versions = {}
    /\ deleted_records = {}
    /\ counts = NoCounts
    /\ dynamo_table = "no_item"
    /\ deleted_items = {}

----------------------------------------------------------------------------
(* The custom components directory and selective_copy_components *)

\* component_type_dirs: the directory of a component type prefix
\* <<"lambdacomponents", type>>; "" when the prefix is no key of the dict
component_type_dirs(prefix) ==
    IF /\ prefix[1] = "lambdacomponents"
       /\ prefix[2] \in {"connector", "exporter", "processor", "receiver", "extension"}
    THEN prefix[2]
    ELSE ""

\* The directory as the overlay reads it: whether `components` is a directory,
\* and, for each component type directory in it, the component names n some
\* file of the directory matches the glob `*n*.go` for.
ComponentsDir(is_dir, go_files) == [is_dir |-> is_dir, go_files |-> go_files]

\* no `components` directory
NoComponentsDir == ComponentsDir(FALSE, [d \in {} |-> {}])

\* layouts of the directory: every type directory with a file for every
\* component; no `connector` directory; a `connector` directory without a
\* file for "aws"
FsLayouts ==
    { NoComponentsDir,
      ComponentsDir(TRUE, [d \in {"connector", "exporter"} |->
                             IF d = "connector" THEN {"aws", "gcp", "x"}
                             ELSE {"clickhouse"}]),
      ComponentsDir(TRUE, [d \in {"exporter"} |-> {"clickhouse"}]),
      ComponentsDir(TRUE, [d \in {"connector", "exporter"} |->
                             IF d = "connector" THEN {"gcp"} ELSE {"clickhouse"}]) }

\* source_type_dir.is_dir()
TypeDirExists(fs, dir) == dir \in DOMAIN fs.go_files

\* list(source_type_dir.glob(f"*{component_name}*.go")) is not empty
GlobFinds(fs, dir, component_name) == component_name \in fs.go_files[dir]

\* the body of the loop over included_components: whether component_tag is
\* appended to copied_components
IsCopied(fs, component_tag) ==
    /\ Len(component_tag) >= 3
    /\ component_type_dirs(SubSeq(component_tag, 1, 2)) # ""
    /\ TypeDirExists(fs, component_type_dirs(SubSeq(component_tag, 1, 2)))
    /\ \/ component_tag[3] = "all"
       \/ GlobFinds(fs, component_type_dirs(SubSeq(component_tag, 1, 2)),
                    component_tag[3])

\* selective_copy_components: what it resolved (its included_components) and
\* what it returns (its copied_components)
selective_copy_components(fs, active_tags, mappings) ==
    IF ~fs.is_dir
    THEN [included |-> <<>>, copied |-> <<>>]
    ELSE LET included == resolve_components_by_tags(active_tags, mappings)
             Copied(component_tag) == IsCopied(fs, component_tag)
         IN  [included |-> included, copied |-> SelectSeq(included, Copied)]

\* a run that loads no file and overlays nothing
NoFlow ==
    /\ distributions_file = MissingFile
    /\ dependency_file = MissingDependencyFile
    /\ load_result = NotLoaded
    /\ components_fs = NoComponentsDir
    /\ copied_components = <<>>
    /\ NoPublisher
    /\ NoDelete

----------------------------------------------------------------------------
(* The runs: a distribution is resolved against a loaded table; a build    *)
(* selects its components and adds their dependencies                      *)

NoOutcome == [ok |-> FALSE, tags |-> <<>>, kind |-> "pending", at |-> "",
              chain |-> <<>>, depth |-> 0]

\* a run that makes no second call
NoRepeat ==
    /\ relisted_data = EmptyTable
    /\ second_outcome = NoOutcome

\* a run that does not follow the calls one by one
NoDescent ==
    /\ call_stack = <<>>
    /\ returning = NoOutcome

\* the concurrent invocations
Invocations == {1, 2}

\* a run of a single invocation
NoConcurrent ==
    /\ requests = [i \in Invocations |-> ""]
    /\ visited_sets = <<>>
    /\ stacks = [i \in Invocations |-> <<>>]
    /\ returnings = [i \in Invocations |-> NoOutcome]
    /\ outcomes = [i \in Invocations |-> NoOutcome]
    /\ key_index = [i \in Invocations |-> 0]
    /\ included_lists = [i \in Invocations |-> <<>>]
    /\ position = [i \in Invocations |-> "idle"]

\* a run of one of the flows above only
----------------------------------------------------------------------------
(* run_command (tools/scripts/otel_layer_utils/subprocess_utils.py): a     *)
(* line of text is the sequence of its characters, a file the sequence of  *)
(* its lines, a dict the function from its keys to their values            *)

\* most lines a command writes to one of its GitHub files
MaxLines == 1

\* the lines a command writes
WrittenLines ==
    { <<"K", "=", "v">>, <<"K", "=", "w">>, <<"K", "=">>, <<"=", "v">>, <<"K">>,
      <<" ", "K", "=", "v", " ">>, <<"K", "=", "v", "=", "w">> }

\* the contents a command leaves in one file
WrittenFiles == UNION { [1..n -> WrittenLines] : n \in 0..MaxLines }

\* the two temporary files, in the order run_command reads them
GithubEnvFile == "GITHUB_ENV"
GithubOutputFile == "GITHUB_OUTPUT"

\* no file at all
NoFiles == [f \in {} |-> <<>>]

\* an empty dict
NoVars == [k \in {} |-> <<>>]

\* what a command does: whether subprocess.run can start it, its return
\* code, and the lines it appends to $GITHUB_ENV and to $GITHUB_OUTPUT
Command(starts, returncode, env_lines, output_lines) ==
    [starts |-> starts, returncode |-> returncode, env_lines |-> env_lines,
     output_lines |-> output_lines]

NoCommandRun == Command(FALSE, 0, <<>>, <<>>)

Commands ==
    { Command(TRUE, rc, e, o) : rc \in {0, 1}, e \in WrittenFiles, o \in WrittenFiles }
    \cup {NoCommandRun}

\* str.strip() of a line
RECURSIVE lstrip(_)
lstrip(line) ==
    IF line # <<>> /\ Head(line) = " " THEN lstrip(Tail(line)) ELSE line

RECURSIVE rstrip(_)
rstrip(line) ==
    IF line # <<>> /\ line[Len(line)] = " "
    THEN rstrip(SubSeq(line, 1, Len(line) - 1)) ELSE line

strip(line) == rstrip(lstrip(line))

\* `"=" in line`
HasEquals(line) == \E i \in 1..Len(line) : line[i] = "="

\* line.split("=", 1) of a line that has an "="
split(line) ==
    LET at == CHOOSE i \in 1..Len(line) :
                  line[i] = "=" /\ \A j \in 1..(i - 1) : line[j] # "="
    IN  [key |-> SubSeq(line, 1, at - 1), value |-> SubSeq(line, at + 1, Len(line))]

\* the assignment `github_env_vars[key] = value`
SetVar(env_vars, key, value) ==
    [k \in DOMAIN env_vars \cup {key} |-> IF k = key THEN value ELSE env_vars[k]]

\* `for line in f:` over the lines of a file, from line i on
RECURSIVE parse_lines(_, _, _)
parse_lines(lines, i, env_vars) ==
    IF i > Len(lines) THEN env_vars
    ELSE LET line == strip(lines[i])
         IN  IF line # <<>> /\ HasEquals(line)
             THEN parse_lines(lines, i + 1,
                              SetVar(env_vars, split(line).key, split(line).value))
             ELSE parse_lines(lines, i + 1, env_vars)

\* the try block for one file: it is read when it exists and is not empty
parse_github_file(files, file_path, env_vars) ==
    IF file_path \in DOMAIN files /\ files[file_path] # <<>>
    THEN parse_lines(files[file_path], 1, env_vars)
    ELSE env_vars

\* the finally block for one file: os.unlink when it exists
unlink(files, file_path) == [f \in DOMAIN files \ {file_path} |-> files[f]]

----------------------------------------------------------------------------
(* The local build (tools/ocelot.py, tools/local_build): the context, the  *)
(* step tracker and the exceptions                                         *)

\* `None` as a step index
None == -1

\* no process exit yet
NotExited == -1

\* the tracked steps: build_steps of main
BuildSteps == 0..4

\* StepTracker.__init__: `self.status = ["pending"] * len(steps)`
StepTracker == [i \in BuildSteps |-> "pending"]

\* the setters class BuildContext defines, and the field each assigns
BuildContextSetters ==
    [set_temp_dir |-> "temp_upstream_dir", set_upstream_version |-> "upstream_version",
     set_build_tags |-> "build_tags_string",
     set_distributions_data |-> "distributions_data", set_layer_file |-> "layer_file",
     set_layer_arn |-> "layer_arn", set_aws_region |-> "aws_region",
     set_dynamodb_region |-> "dynamodb_region"]

\* BuildContext.__init__: the two options the flow reads, and the runtime
\* state, of which the model keeps whether each field has been given a value
BuildContext(keep_temp, skip) ==
    [keep_temp |-> keep_temp, skip_publish |-> skip, temp_upstream_dir |-> FALSE,
     upstream_version |-> FALSE, build_tags_string |-> FALSE,
     distributions_data |-> FALSE, layer_file |-> FALSE, layer_arn |-> FALSE,
     aws_region |-> FALSE, dynamodb_region |-> FALSE]

\* no exception
NoException == [type |-> "none", step_index |-> None, step_message |-> FALSE,
                exit_code |-> 0]

\* TerminateApp(message, exit_code=1, step_index, step_message); of the
\* message the model keeps whether it is given
TerminateApp(step_index, step_message) ==
    [type |-> "TerminateApp", step_index |-> step_index,
     step_message |-> step_message, exit_code |-> 1]

\* any other exception
Error(type) == [type |-> type, step_index |-> None, step_message |-> FALSE,
                exit_code |-> 0]

\* a run of no local build
NoLocalBuild ==
    /\ entry = ""
    /\ inject_error_target = ""
    /\ context = BuildContext(FALSE, FALSE)
    /\ tracker = StepTracker
    /\ started_steps = <<>>
    /\ temp_upstream_dir = "absent"
    /\ raised = NoException
    /\ exit_code = NotExited
    /\ calls = <<>>

\* a run that runs no command
NoCommand ==
    /\ check = FALSE
    /\ capture_github_env = FALSE
    /\ command = NoCommandRun
    /\ temp_files = NoFiles
    /\ github_env_vars = NoVars
    /\ command_result = "not_called"

\* a run of none of the command-line tools' helpers
NoTools ==
    /\ NoCommand
    /\ NoLocalBuild

NoOthers ==
    /\ NoRepeat
    /\ NoDescent
    /\ NoConcurrent
    /\ NoTools

InitResolve ==
    /\ distribution_name \in RequestedNames
    /\ IsTableFor(distributions_data, distribution_name)
    /\ outcome = NoOutcome
    /\ caller_visited = {}
    /\ active_build_tags = <<>>
    /\ dependency_mappings = <<>>
    /\ upstream_version = ""
    /\ included_components = <<>>
    /\ go_mod_edits = {}
    /\ success_count = 0
    /\ go_mod_tidy = FALSE
    /\ go_mod_crashed = FALSE
    /\ NoFlow
    /\ NoOthers
    /\ pc = "loaded"

InitBuild ==
    /\ distribution_name = ""
    /\ distributions_data = EmptyTable
    /\ outcome = NoOutcome
    /\ caller_visited = {}
    /\ active_build_tags \in ActiveTagLists
    /\ \E ks \in KeyLists : dependency_mappings = MappingOf(ks)
    /\ upstream_version \in UpstreamVersions
    /\ included_components = <<>>
    /\ go_mod_edits = {}
    /\ success_count = 0
    /\ go_mod_tidy = FALSE
    /\ go_mod_crashed = FALSE
    /\ NoFlow
    /\ NoOthers
    /\ pc = "configured"

Init == InitResolve \/ InitBuild

\* resolve_build_tags(distribution_name, distributions_data): `visited` is
\* None, and the call makes its own empty set
ResolveBuildTags ==
    /\ pc = "loaded"
    /\ outcome' = resolve_build_tags(distribution_name, distributions_data, {})
    /\ pc' = "resolved"
    /\ UNCHANGED <<distributions_data, distribution_name, caller_visited, build_inputs,
                   included_components, deps_vars, flow_vars, publisher_vars, delete_vars, other_vars>>

\* resolve_components_by_tags(active_build_tags, dependency_mappings)
ResolveComponentsByTags ==
    /\ pc = "configured"
    /\ included_components' =
           resolve_components_by_tags(active_build_tags, dependency_mappings)
    /\ pc' = "selected"
    /\ UNCHANGED <<resolver_vars, build_inputs, deps_vars, flow_vars, publisher_vars, delete_vars, other_vars>>

\* add_dependencies(collector_dir, active_build_tags, dependency_mappings,
\*                  upstream_version)
AddDependencies ==
    /\ pc = "selected"
    /\ UNCHANGED <<resolver_vars, build_inputs, included_components, flow_vars,
                   publisher_vars, delete_vars, other_vars>>
    /\ IF dependency_mappings = <<>>
       THEN /\ pc' = "deps_done"
            /\ UNCHANGED deps_vars
       ELSE IF upstream_version = ""
       THEN /\ pc' = "exit_1"
            /\ UNCHANGED deps_vars
       ELSE
         LET components_to_include ==
                 resolve_components_by_tags(active_build_tags, dependency_mappings)
             modules == modules_to_add(components_to_include, dependency_mappings)
         IN  IF modules = {}
             THEN /\ pc' = "deps_done"
                  /\ UNCHANGED deps_vars
             ELSE \E run \in LoopRuns(modules) :
                    /\ run.added \subseteq run.tried
                    /\ go_mod_edits' = run.tried
                    /\ success_count' = Cardinality(run.added)
                    /\ go_mod_tidy' = (~run.crashed /\ Cardinality(run.added) > 0)
                    /\ go_mod_crashed' = run.crashed
                    /\ pc' = "deps_done"

Next == ResolveBuildTags \/ ResolveComponentsByTags \/ AddDependencies

Spec == Init /\ [][Next]_vars

----------------------------------------------------------------------------
(* resolve_build_tags called with a `visited` set of the caller's *)

\* the sets a caller may pass
VisitedSets == SUBSET DistNames

\* The object `visited` names after the top-level call: the checks of lines
\* 57-66 raise before it is touched; past them, `visited.add` puts the name
\* in the caller's own set. The nested calls get `visited.copy()` and leave it
\* alone.
VisitedAfterCall(name, data, supplied) ==
    IF InVisited(name, supplied) \/ NotFound(name, data)
    THEN supplied
    ELSE supplied \cup {name}

InitResolveWithVisited ==
    /\ distribution_name \in RequestedNames
    /\ IsTableFor(distributions_data, distribution_name)
    /\ outcome = NoOutcome
    /\ caller_visited \in VisitedSets
    /\ active_build_tags = <<>>
    /\ dependency_mappings = <<>>
    /\ upstream_version = ""
    /\ included_components = <<>>
    /\ go_mod_edits = {}
    /\ success_count = 0
    /\ go_mod_tidy = FALSE
    /\ go_mod_crashed = FALSE
    /\ NoFlow
    /\ NoOthers
    /\ pc = "loaded_with_visited"

\* resolve_build_tags(distribution_name, distributions_data, caller_visited)
ResolveBuildTagsWithVisited ==
    /\ pc = "loaded_with_visited"
    /\ outcome' =
           resolve_build_tags(distribution_name, distributions_data, caller_visited)
    /\ caller_visited' =
           VisitedAfterCall(distribution_name, distributions_data, caller_visited)
    /\ pc' = "resolved_with_visited"
    /\ UNCHANGED <<distributions_data, distribution_name, build_inputs,
                   included_components, deps_vars, flow_vars, publisher_vars, delete_vars, other_vars>>

NextWithVisited == ResolveBuildTagsWithVisited

SpecWithVisited == InitResolveWithVisited /\ [][NextWithVisited]_vars

----------------------------------------------------------------------------
(* The flows that load the files: get_release_info.py loads the            *)
(* distributions file and resolves the build tags; build_extension_layer's *)
(* main loads the dependency file, overlays the components and adds their  *)
(* dependencies                                                            *)

InitReleaseInfo ==
    /\ distribution_name \in RequestedNames
    /\ IsDistributionsFileFor(distributions_file, distribution_name)
    /\ distributions_data = EmptyTable
    /\ outcome = NoOutcome
    /\ caller_visited = {}
    /\ active_build_tags = <<>>
    /\ dependency_mappings = <<>>
    /\ upstream_version = ""
    /\ included_components = <<>>
    /\ go_mod_edits = {}
    /\ success_count = 0
    /\ go_mod_tidy = FALSE
    /\ go_mod_crashed = FALSE
    /\ dependency_file = MissingDependencyFile
    /\ load_result = NotLoaded
    /\ components_fs = NoComponentsDir
    /\ copied_components = <<>>
    /\ NoPublisher
    /\ NoDelete
    /\ NoOthers
    /\ pc = "release_info"

InitMain ==
    /\ distribution_name = ""
    /\ distributions_data = EmptyTable
    /\ outcome = NoOutcome
    /\ caller_visited = {}
    /\ active_build_tags \in ActiveTagLists
    /\ dependency_mappings = <<>>
    /\ upstream_version \in UpstreamVersions
    /\ included_components = <<>>
    /\ go_mod_edits = {}
    /\ success_count = 0
    /\ go_mod_tidy = FALSE
    /\ go_mod_crashed = FALSE
    /\ distributions_file = MissingFile
    /\ dependency_file \in DependencyFiles
    /\ load_result = NotLoaded
    /\ components_fs \in FsLayouts
    /\ copied_components = <<>>
    /\ NoPublisher
    /\ NoDelete
    /\ NoOthers
    /\ pc = "main"

InitFlows == InitReleaseInfo \/ InitMain

\* get_release_info.py, "Determine Build Tags": load_distributions; a
\* DistributionError ends the script with exit code 1. A root that is returned
\* goes to resolve_build_tags.
ReleaseLoadDistributions ==
    /\ pc = "release_info"
    /\ load_result' = load_distributions(distributions_file)
    /\ IF load_result'.raised
       THEN /\ pc' = "exit_1"
            /\ UNCHANGED distributions_data
       ELSE IF load_result'.root.type = "dict"
       THEN /\ pc' = "loaded"
            /\ distributions_data' = load_result'.root.table
       ELSE /\ pc' = "loaded_no_mapping"
            /\ UNCHANGED distributions_data
    /\ UNCHANGED <<distribution_name, outcome, caller_visited, build_inputs,
                   included_components, deps_vars, distributions_file,
                   dependency_file, components_fs, copied_components, publisher_vars, delete_vars, other_vars>>

\* resolve_build_tags on a root that is no mapping: a list or a string has
\* no `get`, the AttributeError is caught by `except Exception` and the
\* script ends with exit code 1
ReleaseResolveNoMapping ==
    /\ pc = "loaded_no_mapping"
    /\ pc' = "exit_1"
    /\ UNCHANGED <<resolver_vars, build_inputs, included_components, deps_vars,
                   flow_vars, publisher_vars, delete_vars, other_vars>>

\* main, up to the clone: without a version the build exits; the tags are
\* split, the dependency file is loaded, the upstream repository is cloned
\* (a failed clone exits)
MainLoadAndClone ==
    /\ pc = "main"
    /\ IF upstream_version = ""
       THEN /\ pc' = "exit_1"
            /\ UNCHANGED <<dependency_mappings, load_result>>
       ELSE LET loaded == load_component_dependencies(dependency_file)
            IN  /\ load_result' =
                       IF loaded.raised THEN LoadRaised("exception")
                       ELSE LoadReturned(RootNone)
                /\ dependency_mappings' = loaded.mappings
                /\ IF loaded.raised
                   THEN pc' = "crashed"
                   ELSE \E clone_ok \in BOOLEAN :
                          pc' = IF clone_ok THEN "cloned" ELSE "exit_1"
    /\ UNCHANGED <<resolver_vars, active_build_tags, upstream_version,
                   included_components, deps_vars, distributions_file,
                   dependency_file, components_fs, copied_components, publisher_vars, delete_vars, other_vars>>

\* main, step 2: selective_copy_components(component_dir, upstream_dir,
\* active_build_tags, dependency_mappings)
SelectiveCopyComponents ==
    /\ pc = "cloned"
    /\ LET overlay == selective_copy_components(components_fs, active_build_tags,
                                                dependency_mappings)
       IN  /\ included_components' = overlay.included
           /\ copied_components' = overlay.copied
    /\ pc' = "overlaid"
    /\ UNCHANGED <<resolver_vars, build_inputs, deps_vars, distributions_file,
                   dependency_file, load_result, components_fs, publisher_vars, delete_vars, other_vars>>

\* main, step 3 before add_dependencies: without a `collector` directory in
\* the clone the build exits
MainCheckCollectorDir ==
    /\ pc = "overlaid"
    /\ \E collector_dir_is_dir \in BOOLEAN :
         pc' = IF collector_dir_is_dir THEN "selected" ELSE "exit_1"
    /\ UNCHANGED <<resolver_vars, build_inputs, included_components, deps_vars,
                   flow_vars, publisher_vars, delete_vars, other_vars>>

NextFlows ==
    \/ ReleaseLoadDistributions
    \/ ResolveBuildTags
    \/ ReleaseResolveNoMapping
    \/ MainLoadAndClone
    \/ SelectiveCopyComponents
    \/ MainCheckCollectorDir
    \/ AddDependencies

SpecFlows == InitFlows /\ [][NextFlows]_vars

----------------------------------------------------------------------------
(* What the claims speak of, stated without the resolver *)

Resolved == pc = "resolved"

\* the names the base chain from n leads through, in order: it goes on while
\* the name is a key whose `base` is a non-empty string, for at most k steps
RECURSIVE ChainWalk(_, _, _)
ChainWalk(t, n, k) ==
    IF k = 0 \/ n \notin DOMAIN t \/ BaseTarget(t[n]) = ""
    THEN <<n>>
    ELSE <<n>> \o ChainWalk(t, BaseTarget(t[n]), k - 1)

\* the walk of the requested distribution; with three names a fourth step
\* must revisit one
RequestedWalk ==
    ChainWalk(distributions_data, distribution_name, Cardinality(DistNames))

\* the base chain comes back to a name it has been through
ChainRevisits ==
    \E i, j \in 1..Len(RequestedWalk) : i < j /\ RequestedWalk[i] = RequestedWalk[j]

\* the name the chain revisits first
FirstRevisited ==
    RequestedWalk[CHOOSE j \in 1..Len(RequestedWalk) :
                    /\ \E i \in 1..(j - 1) : RequestedWalk[i] = RequestedWalk[j]
                    /\ \A k \in 1..(j - 1) :
                         \A i \in 1..(k - 1) : RequestedWalk[i] # RequestedWalk[k]]

\* the base chain leads to a name that is no key of the table
ChainHitsMissing ==
    RequestedWalk[Len(RequestedWalk)] \notin DOMAIN distributions_data

\* a `buildtags` field that is present and is not a list
BuildtagsMalformed(info) == info.buildtags.type \notin {"absent", "list"}

\* a `base` field that is present and is not a string
BaseNotString(info) == info.base.type \notin {"absent", "str"}

\* the positions of the walk whose distribution has a malformed `buildtags`
MalformedPositions ==
    { i \in 1..Len(RequestedWalk) :
        /\ RequestedWalk[i] \in DOMAIN distributions_data
        /\ BuildtagsMalformed(distributions_data[RequestedWalk[i]]) }

\* the chain is walked to its end: no cycle, no missing name, and the last
\* distribution has no truthy non-string base
ChainWalkedToEnd ==
    /\ ~ChainRevisits
    /\ ~ChainHitsMissing
    /\ ~distributions_data[RequestedWalk[Len(RequestedWalk)]].base.truthy

\* a list of tags in strictly ascending order (so without duplicates)
StrictlyAscending(tags) ==
    \A i \in 1..(Len(tags) - 1) : TagRank(tags[i]) < TagRank(tags[i + 1])

\* the tags a dist_info declares itself, when `buildtags` is absent or a list
OwnTagSet(info) == ToSet(info.buildtags.items)

----------------------------------------------------------------------------
(* Claims on resolve_build_tags *)

\* the requested distribution d has a base b that resolves on its own, and
\* d's `buildtags` is absent or a list
InheritsFromResolvedBase ==
    /\ Resolved
    /\ distribution_name \in DOMAIN distributions_data
    /\ BaseTarget(distributions_data[distribution_name]) # ""
    /\ ~BuildtagsMalformed(distributions_data[distribution_name])
    /\ resolve_build_tags(BaseTarget(distributions_data[distribution_name]),
                          distributions_data, {}).ok

\* C1: when d's base b resolves successfully, resolve_build_tags(d) returns
\* the sorted, duplicate-free union of resolve_build_tags(b) and d's own
\* buildtags, through chains of any depth.
C1_InheritedUnion ==
    InheritsFromResolvedBase =>
        /\ outcome.ok
        /\ StrictlyAscending(outcome.tags)
        /\ ToSet(outcome.tags) =
             ToSet(resolve_build_tags(BaseTarget(distributions_data[distribution_name]),
                                      distributions_data, {}).tags)
             \cup OwnTagSet(distributions_data[distribution_name])

\* C1 witness: a three-level chain resolved, the grandparent's tag reaching
\* the grandchild, which declares a different tag itself (twice).
C1_Witness ==
    /\ InheritsFromResolvedBase
    /\ Len(RequestedWalk) = 3
    /\ distributions_data[RequestedWalk[1]].buildtags = PyList(<<"tag2", "tag2">>)
    /\ distributions_data[RequestedWalk[2]].buildtags = PyList(<<>>)
    /\ distributions_data[RequestedWalk[3]].buildtags = PyList(<<"tag1">>)
    /\ outcome.tags = <<"tag1", "tag2">>

\* C2: when the base chain from the requested distribution revisits a name,
\* resolve_build_tags raises the circular-dependency DistributionError, returns
\* no tag list, and its recursion is no deeper than the table has entries
\* plus one.
C2_CycleRaises ==
    (Resolved /\ ChainRevisits) =>
        /\ ~outcome.ok
        /\ outcome.kind = "circular"
        /\ outcome.at = FirstRevisited
        /\ outcome.tags = <<>>
        /\ outcome.depth <= Cardinality(DOMAIN distributions_data) + 1

\* C2 witness: a cycle reached after a non-cyclic prefix (a -> b -> c -> b, or
\* a -> b -> c -> c) was resolved.
C2_Witness ==
    /\ Resolved
    /\ ChainRevisits
    /\ Len(RequestedWalk) = 4
    /\ RequestedWalk[4] # RequestedWalk[1]
    /\ outcome.kind = "circular"

\* C3: when the requested name, or a name reached through the base chain, is
\* no key of the table, resolve_build_tags raises the not-found
\* DistributionError for that name and returns no tag list.
C3_MissingRaises ==
    (Resolved /\ ChainHitsMissing) =>
        /\ ~outcome.ok
        /\ outcome.kind = "not_found"
        /\ outcome.at = RequestedWalk[Len(RequestedWalk)]
        /\ outcome.tags = <<>>

\* C3 witness: the missing name is reached two bases up from the requested
\* distribution, whose own tags are well-formed.
C3_Witness ==
    /\ Resolved
    /\ ChainHitsMissing
    /\ Len(RequestedWalk) = 3
    /\ distributions_data[RequestedWalk[1]].buildtags.type = "list"
    /\ Len(distributions_data[RequestedWalk[1]].buildtags.items) > 0
    /\ ~outcome.ok

\* C4 (as claimed): a distribution whose `base` is present and is not a
\* string (0 and other falsy values included) makes resolve_build_tags raise
\* the malformed-config DistributionError.
C4_NonStringBaseRaises ==
    ( /\ Resolved
      /\ distribution_name \in DOMAIN distributions_data
      /\ BaseNotString(distributions_data[distribution_name]) )
    => (~outcome.ok /\ outcome.kind \in {"bad_base", "bad_buildtags"})

\* C5: a distribution on the base chain whose `buildtags` is present and not
\* a list (a string, null) makes resolve_build_tags raise and return no tags;
\* when the chain is otherwise walked to its end, the error is the
\* malformed-buildtags DistributionError, naming the deepest such distribution.
C5_MalformedBuildtagsRaises ==
    (Resolved /\ MalformedPositions # {}) =>
        /\ ~outcome.ok
        /\ outcome.tags = <<>>
        /\ ChainWalkedToEnd =>
             /\ outcome.kind = "bad_buildtags"
             /\ \E i \in MalformedPositions :
                  /\ \A j \in MalformedPositions : j <= i
                  /\ outcome.at = RequestedWalk[i]

\* C5 witness: the malformed `buildtags` (null) is an ancestor's, two bases up,
\* and the requested distribution's own list is fine.
C5_Witness ==
    /\ Resolved
    /\ ChainWalkedToEnd
    /\ MalformedPositions = {3}
    /\ distributions_data[RequestedWalk[3]].buildtags = PyNone
    /\ outcome.kind = "bad_buildtags"

\* the distribution at position p of the requested walk is one resolution
\* fails at: it is no key of the table, the walk has been through it before,
\* its `base` is a truthy non-string, or its `buildtags` is malformed
FailsAt(p) ==
    LET n == RequestedWalk[p]
    IN  \/ n \notin DOMAIN distributions_data
        \/ \E i \in 1..(p - 1) : RequestedWalk[i] = n
        \/ /\ BaseNotString(distributions_data[n])
           /\ distributions_data[n].base.truthy
        \/ BuildtagsMalformed(distributions_data[n])

\* C16: when the top-level resolution fails, its error carries one wrapping
\* context per level above the failing one, outermost first, each naming the
\* distribution resolved at that level and its base, and the innermost error
\* names the distribution the resolution failed at (missing, malformed or
\* revisited).
C16_ErrorChain ==
    (Resolved /\ ~outcome.ok) =>
        LET k == Len(outcome.chain)
        IN  /\ k + 1 <= Len(RequestedWalk)
            /\ \A i \in 1..k :
                 outcome.chain[i] =
                     [dist |-> RequestedWalk[i], base |-> RequestedWalk[i + 1]]
            /\ outcome.at = RequestedWalk[k + 1]
            /\ FailsAt(k + 1)

\* C16 witness: a -> b -> c with c missing: two contexts, (a, b) then (b, c),
\* around the not-found error naming c.
C16_Witness ==
    /\ Resolved
    /\ outcome.kind = "not_found"
    /\ Len(outcome.chain) = 2
    /\ outcome.chain[1].dist = distribution_name
    /\ outcome.chain[2].dist = outcome.chain[1].base
    /\ outcome.at = outcome.chain[2].base
    /\ outcome.at \notin {outcome.chain[1].dist, outcome.chain[2].dist}

\* C20: a distribution with no `base` field, whose `buildtags` is absent or a
\* list, resolves to its own buildtags in ascending order without duplicates:
\* the empty list when `buildtags` is absent or empty.
C20_OwnTagsWithoutBase ==
    ( /\ Resolved
      /\ distribution_name \in DOMAIN distributions_data
      /\ distributions_data[distribution_name].base.type = "absent"
      /\ ~BuildtagsMalformed(distributions_data[distribution_name]) )
    =>
        /\ outcome.ok
        /\ StrictlyAscending(outcome.tags)
        /\ ToSet(outcome.tags) = OwnTagSet(distributions_data[distribution_name])
        /\ OwnTagSet(distributions_data[distribution_name]) = {}
             => outcome.tags = <<>>

\* C20 witness: a distribution without base declaring its tags in descending
\* order was resolved to the ascending list.
C20_Witness ==
    /\ Resolved
    /\ distribution_name \in DOMAIN distributions_data
    /\ distributions_data[distribution_name].base.type = "absent"
    /\ distributions_data[distribution_name].buildtags = PyList(<<"tag2", "tag1">>)
    /\ outcome.tags = <<"tag1", "tag2">>

\* C17 (as claimed): a call resolve_build_tags(name, table, visited) leaves
\* the caller's `visited` set with exactly the elements it had, whether the
\* call returns or raises.
C17_CallerVisitedUnchanged == [][caller_visited' = caller_visited]_vars

----------------------------------------------------------------------------
(* What the selector claims speak of *)

\* resolve_components_by_tags has returned
Selected == pc \in {"selected", "deps_done", "exit_1"}

ActiveSet == {active_build_tags[i] : i \in 1..Len(active_build_tags)}

KeySet == {dependency_mappings[i].key : i \in 1..Len(dependency_mappings)}

IncludedSet == {included_components[i] : i \in 1..Len(included_components)}

LastSegment(t) == t[Len(t)]

\* a tag <domain>.<category>.all
IsCategoryWildcard(t) == Len(t) = 3 /\ t[3] = "all"

\* every active tag whose last segment is "all" is a category wildcard, and
\* there is one: no global wildcard, no wildcard of another shape
OnlyCategoryWildcards ==
    /\ \A t \in ActiveSet : LastSegment(t) = "all" => IsCategoryWildcard(t)
    /\ \E t \in ActiveSet : IsCategoryWildcard(t)

\* the key's first two segments are <domain>.<category> of an active
\* category wildcard
InWildcardCategory(k) ==
    \E t \in ActiveSet :
        /\ IsCategoryWildcard(t)
        /\ Len(k) >= 2
        /\ k[1] = t[1]
        /\ k[2] = t[2]

\* the keys of the mapping that are active tags, in the mapping's order
DirectMatches ==
    LET IsActive(k) == k \in ActiveSet
    IN  SelectSeq([i \in 1..Len(dependency_mappings) |-> dependency_mappings[i].key],
                  IsActive)

----------------------------------------------------------------------------
(* Claims on resolve_components_by_tags *)

\* C6 (as claimed): with category wildcards only and the key not an active
\* tag, a key of three or more segments is included exactly when its first
\* two segments are those of an active category wildcard and its third
\* segment is not "all".
C6_CategoryWildcardThirdSegment ==
    (Selected /\ OnlyCategoryWildcards) =>
        \A k \in KeySet \ ActiveSet :
            Len(k) >= 3 =>
                (k \in IncludedSet <=> (InWildcardCategory(k) /\ k[3] # "all"))

\* C6 (amended): with category wildcards only and the key not an active tag,
\* a key is included exactly when it has three or more segments, its first
\* two segments are those of an active category wildcard, and its last
\* segment is not "all".
C6_CategoryWildcardLastSegment ==
    (Selected /\ OnlyCategoryWildcards) =>
        \A k \in KeySet \ ActiveSet :
            k \in IncludedSet <=>
                (Len(k) >= 3 /\ InWildcardCategory(k) /\ LastSegment(k) # "all")

\* C6 witness: under the connector wildcard alone, the four-segment key
\* whose third segment is "all" was included and the four-segment key ending
\* in "all" was not.
C6_Witness ==
    /\ Selected
    /\ OnlyCategoryWildcards
    /\ active_build_tags = << <<"lambdacomponents", "connector", "all">> >>
    /\ KeySet = { <<"lambdacomponents", "connector", "all", "x">>,
                  <<"lambdacomponents", "connector", "aws", "all">> }
    /\ IncludedSet = { <<"lambdacomponents", "connector", "all", "x">> }

\* C7: with "lambdacomponents.all" active and a non-empty mapping, the result
\* is every key of the mapping, each once, in the mapping's order.
C7_GlobalWildcardIncludesAll ==
    (Selected /\ GlobalAllTag \in ActiveSet /\ Len(dependency_mappings) > 0) =>
        /\ Len(included_components) = Len(dependency_mappings)
        /\ \A i \in 1..Len(dependency_mappings) :
             included_components[i] = dependency_mappings[i].key

\* C7 witness: the global wildcard beside another tag, and a mapping of a
\* two-segment key and a key of another domain, both returned.
C7_Witness ==
    /\ Selected
    /\ GlobalAllTag \in ActiveSet
    /\ Len(active_build_tags) = 2
    /\ KeySet = { <<"lambdacomponents", "connector">>, <<"other", "receiver", "z">> }
    /\ Len(included_components) = 2

\* C8: every key that is an active tag is in the result; and when no active
\* tag ends in ".all", the result is exactly the keys that are active tags.
C8_DirectMatch ==
    Selected =>
        /\ \A k \in KeySet : k \in ActiveSet => k \in IncludedSet
        /\ (\A t \in ActiveSet : ~(Len(t) >= 2 /\ LastSegment(t) = "all"))
             => included_components = DirectMatches

\* C8 witness: no wildcard is active, one key of the mapping is an active tag
\* and the other is not, and the result is the first alone.
C8_Witness ==
    /\ Selected
    /\ \A t \in ActiveSet : LastSegment(t) # "all"
    /\ Len(dependency_mappings) = 2
    /\ dependency_mappings[2].key \in ActiveSet
    /\ dependency_mappings[1].key \notin ActiveSet
    /\ included_components = << dependency_mappings[2].key >>

\* C9: with no active tag, the result is the empty list, whatever the mapping.
C9_EmptyActiveTags ==
    (Selected /\ active_build_tags = <<>>) => included_components = <<>>

\* C9 witness: the selector ran with no active tag on a mapping of two keys.
C9_Witness ==
    /\ Selected
    /\ active_build_tags = <<>>
    /\ Len(dependency_mappings) = 2
    /\ included_components = <<>>

\* C12 (as claimed): a mapping key of fewer than three segments is never in
\* the selector's result, whatever the active tags.
C12_ShortKeySkipped ==
    Selected => \A k \in KeySet : Len(k) < 3 => k \notin IncludedSet

----------------------------------------------------------------------------
(* Claims on add_dependencies *)

\* a component's declared module dependencies: the items of a list, a
\* non-empty string itself; an empty list or an empty string declares none
DeclaredModules(value) ==
    IF value.type = "list" THEN {value.items[i] : i \in 1..Len(value.items)}
    ELSE IF value.type = "str" /\ value.str # "" THEN {value.str}
    ELSE {}

\* the union of the declared module dependencies of the included components
DeclaredUnion ==
    UNION { DeclaredModules(dependency_mappings[i].value) :
              i \in { j \in 1..Len(dependency_mappings) :
                        dependency_mappings[j].key \in IncludedSet } }

\* C10 (as claimed): the module paths add_dependencies attempts `go mod edit
\* -require` for are exactly the deduplicated union of the declared module
\* dependencies of the components resolve_components_by_tags returned.
C10_ExactDependencyUnion ==
    (pc = "deps_done" /\ ~go_mod_crashed) => go_mod_edits = DeclaredUnion

----------------------------------------------------------------------------
(* Claims on the loaders and on the build's use of the selection *)

\* the run is the build's main, past its loading of the dependency file
MainLoaded == distribution_name = "" /\ load_result.done

\* the modules the mapping gives the components the overlay copied
ModulesOfCopied == modules_to_add(copied_components, dependency_mappings)

\* C11 (as claimed): in a run of the build, the modules add_dependencies
\* injects are those of the components selective_copy_components overlaid:
\* a component's dependencies are injected exactly when its files were copied.
C11_OverlayMatchesInjection ==
    (MainLoaded /\ pc = "deps_done" /\ ~go_mod_crashed) =>
        go_mod_edits = ModulesOfCopied

\* C18 (as claimed): load_distributions raises when the file is missing,
\* does not parse, is empty, or has a root that is no mapping, and then no
\* resolution starts; it returns only a mapping.
C18_LoadRejectsNonMappings ==
    (load_result.done /\ distribution_name \in RequestedNames) =>
        /\ ( \/ ~distributions_file.exists
             \/ ~distributions_file.parses
             \/ distributions_file.root.type # "dict" )
           => (load_result.raised /\ pc = "exit_1" /\ outcome = NoOutcome)
        /\ ~load_result.raised => load_result.root.type = "dict"

\* the defects of a dependency file: missing, unparsable, empty, a root
\* without a `dependencies` key, a `dependencies` value that is no mapping
DependencyFileDefective(f) ==
    \/ ~f.exists
    \/ ~f.parses
    \/ f.root.type = "none"
    \/ ~f.root.has_dependencies
    \/ f.root.dependencies.type # "dict"

\* the same defects, of a distributions file: missing, unparsable, empty
DistributionsFileDefective(f) ==
    \/ ~f.exists
    \/ ~f.parses
    \/ f.root.type = "none"

\* C19: load_component_dependencies never raises; on a defective file it
\* returns the empty mapping, and the build goes on with no component
\* selected or copied and no dependency injected. The same defects in the
\* distributions file make load_distributions raise, and the flow ends with
\* exit code 1 before any resolution.
C19_DependencyFileDegrades ==
    /\ MainLoaded => (~load_result.raised /\ pc # "crashed")
    /\ (MainLoaded /\ DependencyFileDefective(dependency_file)) =>
         /\ dependency_mappings = <<>>
         /\ included_components = <<>>
         /\ copied_components = <<>>
         /\ go_mod_edits = {}
         /\ ~go_mod_tidy
    /\ ( /\ distribution_name \in RequestedNames
         /\ load_result.done
         /\ DistributionsFileDefective(distributions_file) ) =>
         /\ load_result.raised
         /\ pc = "exit_1"
         /\ outcome = NoOutcome

\* C19 witness: the build found no dependency file, had every wildcard's tag
\* active and a components directory, and got through add_dependencies with
\* nothing copied and nothing injected.
C19_Witness ==
    /\ MainLoaded
    /\ pc = "deps_done"
    /\ dependency_file = MissingDependencyFile
    /\ GlobalAllTag \in ActiveSet
    /\ components_fs.is_dir
    /\ copied_components = <<>>
    /\ go_mod_edits = {}

----------------------------------------------------------------------------
(* lambda_layer_publisher.py: main and the helpers it calls.  The run is a
   GitHub Actions step (GITHUB_OUTPUT is set) and the artifact can be read. *)

\* the calls of the publisher that change something in AWS
MutatingCalls == {"publish_layer_version", "add_layer_version_permission", "put_item"}

\* check_lambda_layers: the listing, None after ResourceNotFoundException,
\* False after any other error
ListingNone == [kind |-> "None", layers |-> <<>>]

ListingFalse == [kind |-> "False", layers |-> <<>>]

check_lambda_layers(versions, result) ==
    IF result = "listed" THEN [kind |-> "list", layers |-> versions]
    ELSE IF result = "not_found" THEN ListingNone
    ELSE ListingFalse

\* the first place of the listing whose description contains the hash, 0 if none
RECURSIVE FirstMatchFrom(_, _)
FirstMatchFrom(layers, i) ==
    IF i > Len(layers) THEN 0
    ELSE IF Md5InDescription(layers[i]) THEN i
    ELSE FirstMatchFrom(layers, i + 1)

\* check_layer_exists: (skip_publish, existing_layer_arn)
check_layer_exists(versions, result) ==
    LET existing_layers == check_lambda_layers(versions, result)
        match == FirstMatchFrom(existing_layers.layers, 1)
    IN  IF existing_layers.kind = "None"
        THEN [skip_publish |-> FALSE, arn |-> NoArn]
        ELSE IF existing_layers.layers = <<>>
        THEN [skip_publish |-> FALSE, arn |-> NoArn]
        ELSE IF match # 0
        THEN [skip_publish |-> TRUE, arn |-> Arn("existing", match)]
        ELSE [skip_publish |-> FALSE, arn |-> Arn("existing", 1)]

\* `if dry_run:` at the head of publish_layer
PublishNeverSimulated(dry) == FALSE
PublishSimulated(dry) == dry

\* how do_publish ends: the version is published, the call is made and
\* fails, or an exception comes before the call
PublishOutcomes == {"published", "call_failed", "not_called"}

\* how update_permissions ends
PermissionOutcomes == {"already_public", "added", "add_failed", "get_failed"}

\* the dict check_and_repair_dynamodb's check_dynamodb returns:
\* {"Item": item} for a truthy item, {} otherwise; None after an exception
RecordResponse(item) ==
    IF item = "item" THEN [truthy |-> TRUE, has_item |-> TRUE]
    ELSE [truthy |-> FALSE, has_item |-> FALSE]

\* `if response and "Item" not in response:`
RepairNeeded(response) == response.truthy /\ ~response.has_item

\* a run that resolves no distribution and builds nothing
NoBuild ==
    /\ distribution_name = ""
    /\ distributions_data = EmptyTable
    /\ outcome = NoOutcome
    /\ caller_visited = {}
    /\ active_build_tags = <<>>
    /\ dependency_mappings = <<>>
    /\ upstream_version = ""
    /\ included_components = <<>>
    /\ go_mod_edits = {}
    /\ success_count = 0
    /\ go_mod_tidy = FALSE
    /\ go_mod_crashed = FALSE
    /\ distributions_file = MissingFile
    /\ dependency_file = MissingDependencyFile
    /\ load_result = NotLoaded
    /\ components_fs = NoComponentsDir
    /\ copied_components = <<>>

InitPublisher ==
    /\ NoBuild
    /\ dry_run \in BOOLEAN
    /\ architecture \in Architectures
    /\ make_public \in BOOLEAN
    /\ layer_versions \in VersionListings
    /\ list_result \in ListResults(layer_versions)
    /\ dynamo_item \in DynamoItems
    /\ skip_publish = FALSE
    /\ existing_layer_arn = NoArn
    /\ layer_arn = NoArn
    /\ layer_arn_output = NoArn
    /\ aws_calls = {}
    /\ permission_result = NotAsked
    /\ NoDelete
    /\ NoOthers
    /\ pc = "publisher"

\* main, Step 3: check_layer_exists and `layer_arn = existing_layer_arn`
CheckLayerExists ==
    /\ pc = "publisher"
    /\ LET found == check_layer_exists(layer_versions, list_result)
       IN  /\ skip_publish' = found.skip_publish
           /\ existing_layer_arn' = found.arn
           /\ layer_arn' = found.arn
           /\ pc' = IF ~found.skip_publish THEN "publish"
                    ELSE IF found.arn # NoArn THEN "reuse"
                    ELSE "output"
    /\ UNCHANGED <<resolver_vars, build_inputs, included_components, deps_vars,
                   flow_vars, delete_vars, dry_run, architecture, make_public, layer_versions,
                   list_result,
                   dynamo_item, permission_result, layer_arn_output, aws_calls, other_vars>>

\* main, Step 4: publish_layer; a failed publish exits with status 1
PublishLayer ==
    /\ pc = "publish"
    /\ IF PublishSimulated(dry_run)
       THEN /\ layer_arn' = Arn("simulated", 1)
            /\ UNCHANGED aws_calls
       ELSE \E publish \in PublishOutcomes :
              /\ aws_calls' = IF publish = "not_called" THEN aws_calls
                              ELSE aws_calls \cup {"publish_layer_version"}
              /\ layer_arn' = IF publish = "published"
                              THEN Arn("published", Len(layer_versions) + 1)
                              ELSE NoArn
    /\ pc' = IF layer_arn' = NoArn THEN "exit_1"
             ELSE IF make_public THEN "make_public"
             ELSE "write_metadata"
    /\ UNCHANGED <<resolver_vars, build_inputs, included_components, deps_vars,
                   flow_vars, delete_vars, dry_run, architecture, make_public, layer_versions,
                   list_result,
                   dynamo_item, permission_result, skip_publish, existing_layer_arn, layer_arn_output, other_vars>>

\* make_layer_public's result: True in a dry run and after "already_public"
\* or "success"
PublicSuccessAssumed(result) == TRUE
PublicSuccess(result) == result \in {"already_public", "added", "simulated"}

\* main, Step 5: make_layer_public
MakeLayerPublic ==
    /\ pc = "make_public"
    /\ IF dry_run
       THEN /\ permission_result' = "simulated"
            /\ UNCHANGED aws_calls
       ELSE \E permission \in PermissionOutcomes :
              /\ permission_result' = permission
              /\ aws_calls' = IF permission \in {"added", "add_failed"}
                              THEN aws_calls \cup {"add_layer_version_permission"}
                              ELSE aws_calls
    /\ pc' = IF PublicSuccess(permission_result') THEN "write_metadata" ELSE "output"
    /\ UNCHANGED <<resolver_vars, build_inputs, included_components, deps_vars,
                   flow_vars, delete_vars, dry_run, architecture, make_public, layer_versions,
                   list_result,
                   dynamo_item, skip_publish, existing_layer_arn, layer_arn,
                   layer_arn_output, other_vars>>

\* How the write of dynamodb_utils.write_item ends: put_item answers with
\* status 200 or with another status, put_item raises a ClientError with the
\* code ResourceNotFoundException or another exception, or get_table raises
\* (boto3.resource, before put_item is called)
WriteOutcomes == {"written", "other_status", "table_not_found", "put_failed",
                  "resource_failed"}

\* write_metadata_to_dynamodb(dynamodb_region, metadata, dry_run) for the
\* metadata main and check_and_repair_dynamodb build, of whose required keys
\* only "architecture" can be None: the status returned, and whether
\* table.put_item is called
write_metadata_to_dynamodb(arch, dry, write) ==
    IF dry THEN [status |-> "SUCCESS", put_item |-> FALSE]
    ELSE IF arch = NoArchitecture
    THEN [status |-> "FAILED_VALIDATION", put_item |-> FALSE]
    ELSE IF write = "resource_failed"
    THEN [status |-> "FAILED_OTHER", put_item |-> FALSE]
    ELSE [status |-> IF write = "written" THEN "SUCCESS"
                     ELSE IF write = "table_not_found" THEN "SKIPPED_TABLE_NOT_FOUND"
                     ELSE "FAILED_OTHER",
          put_item |-> TRUE]

\* main, Step 5.5: write_metadata_to_dynamodb for the new version
WriteMetadataToDynamodb ==
    /\ pc = "write_metadata"
    /\ \E write \in WriteOutcomes :
          aws_calls' =
              IF write_metadata_to_dynamodb(architecture, dry_run, write).put_item
              THEN aws_calls \cup {"put_item"}
              ELSE aws_calls
    /\ pc' = "output"
    /\ UNCHANGED <<resolver_vars, build_inputs, included_components, deps_vars,
                   flow_vars, delete_vars, dry_run, architecture, make_public, layer_versions,
                   list_result,
                   dynamo_item, permission_result, skip_publish, existing_layer_arn, layer_arn,
                   layer_arn_output, other_vars>>

\* main, the reuse branch: check_and_repair_dynamodb
CheckAndRepairDynamodb ==
    /\ pc = "reuse"
    /\ layer_arn' = existing_layer_arn
    /\ \E write \in WriteOutcomes :
          aws_calls' =
              IF /\ RepairNeeded(RecordResponse(dynamo_item))
                 /\ write_metadata_to_dynamodb(architecture, dry_run, write).put_item
              THEN aws_calls \cup {"put_item"}
              ELSE aws_calls
    /\ pc' = "output"
    /\ UNCHANGED <<resolver_vars, build_inputs, included_components, deps_vars,
                   flow_vars, delete_vars, dry_run, architecture, make_public, layer_versions,
                   list_result,
                   dynamo_item, permission_result, skip_publish, existing_layer_arn, layer_arn_output, other_vars>>

\* main: `if layer_arn: set_github_output("layer_arn", layer_arn)`
SetLayerArnOutput ==
    /\ pc = "output"
    /\ layer_arn_output' = layer_arn
    /\ pc' = "published_done"
    /\ UNCHANGED <<resolver_vars, build_inputs, included_components, deps_vars,
                   flow_vars, delete_vars, dry_run, architecture, make_public, layer_versions,
                   list_result,
                   dynamo_item, permission_result, skip_publish, existing_layer_arn, layer_arn,
                   aws_calls, other_vars>>

NextPublisher ==
    \/ CheckLayerExists
    \/ PublishLayer
    \/ MakeLayerPublic
    \/ WriteMetadataToDynamodb
    \/ CheckAndRepairDynamodb
    \/ SetLayerArnOutput

SpecPublisher == InitPublisher /\ [][NextPublisher]_vars

\* C13: with --dry-run the publisher makes no publish_layer_version, no
\* add_layer_version_permission and no put_item call, on any path and at any
\* point of the run.
C13_DryRunCallsNothing == dry_run => aws_calls \cap MutatingCalls = {}

\* a dry run went through the simulated publish, permission and metadata steps
C13_Witness ==
    /\ dry_run
    /\ make_public
    /\ pc = "published_done"
    /\ ~skip_publish
    /\ layer_arn_output = Arn("simulated", 1)
    /\ aws_calls = {}

\* the layer has a version whose description contains the artifact's hash
MatchingVersionExists ==
    \E i \in 1..Len(layer_versions) : Md5InDescription(layer_versions[i])

\* C14: publish_layer_version is called only when no existing version of the
\* layer has a description containing the artifact's MD5 hash; when such a
\* version exists, its ARN is the layer_arn output and nothing is published.
C14_PublishOnlyWithoutMatch ==
    MatchingVersionExists =>
        /\ "publish_layer_version" \notin aws_calls
        /\ pc = "published_done" =>
              /\ layer_arn_output.kind = "existing"
              /\ Md5InDescription(layer_versions[layer_arn_output.place])

----------------------------------------------------------------------------
(* delete-layers.py: main, confirm_deletion and delete_layers *)

\* what the user may type at the prompt
Confirmations == {"DELETE", "delete", "DELETE ", "yes", ""}

\* the layers find_matching_layers may return
MatchingLayerLists == UNION {[1..n -> 0..MaxVersions] : n \in 0..MaxLayers}

\* `return confirmation == "DELETE"`
ConfirmationAcceptedAnyCase(typed) == typed \in {"DELETE", "delete"}
ConfirmationAccepted(typed) == typed = "DELETE"

\* confirm_deletion(layers, force, skip_dynamodb)
confirm_deletion(layers, forced, typed) ==
    IF forced THEN TRUE
    ELSE IF layers = <<>> THEN FALSE
    ELSE ConfirmationAccepted(typed)

\* How delete_layer_version ends for one version: done, a ClientError, or
\* another exception (which delete_layers does not catch)
VersionOutcomes == {"deleted", "client_error", "raised"}

\* How the table answers get_item and delete_item for an ARN: there is no
\* item; the item is deleted (status 200); delete_item answers with another
\* status; get_item raises a ClientError; the item is there and delete_item
\* raises a ClientError
TableAnswers == {"no_item", "item_deleted", "other_status", "get_client_error",
                 "delete_client_error"}

\* the parameters of dynamodb_utils.delete_item(layer_arn, region=None)
DeleteItemParameters == {"layer_arn", "region"}

\* dynamodb_utils.delete_item called with the ARN as the only argument, under
\* the given keyword: a TypeError for a keyword it does not have and for a
\* call that leaves the required layer_arn out (the table is not touched),
\* else the ClientError of the table or True / False; `deleting` says whether
\* table.delete_item is called
delete_item(keyword, table) ==
    IF keyword \notin DeleteItemParameters
    THEN [raises |-> "TypeError", result |-> FALSE, deleting |-> FALSE]
    ELSE IF keyword # "layer_arn"
    THEN [raises |-> "TypeError", result |-> FALSE, deleting |-> FALSE]
    ELSE IF table = "get_client_error"
    THEN [raises |-> "ClientError", result |-> FALSE, deleting |-> FALSE]
    ELSE IF table = "no_item"
    THEN [raises |-> "", result |-> TRUE, deleting |-> FALSE]
    ELSE IF table = "delete_client_error"
    THEN [raises |-> "ClientError", result |-> FALSE, deleting |-> TRUE]
    ELSE [raises |-> "", result |-> table = "item_deleted", deleting |-> TRUE]

\* delete_dynamodb_record(layer_arn): `return delete_item(pk=layer_arn)`,
\* False after a ClientError and after any other exception
delete_dynamodb_record(table) ==
    LET call == delete_item("pk", table)
    IN  IF call.raises # "" THEN [call EXCEPT !.result = FALSE] ELSE call

\* how boto3.client("lambda") ends for a layer's region
ClientOutcomes == {"client", "client_error", "raised"}

\* the versions the loop reaches: all up to the first uncaught exception
Attempted(results) ==
    {v \in DOMAIN results : \A u \in 1..(v - 1) : results[u] # "raised"}

\* the versions whose delete_layer_version call returned
Deleted(results) == {v \in Attempted(results) : results[v] = "deleted"}

InitDeleteLayers ==
    /\ NoBuild
    /\ dry_run \in BOOLEAN
    /\ architecture = NoArchitecture
    /\ make_public = FALSE
    /\ layer_versions = <<>>
    /\ list_result = "listed"
    /\ dynamo_item = "no_item"
    /\ skip_publish = FALSE
    /\ existing_layer_arn = NoArn
    /\ layer_arn = NoArn
    /\ layer_arn_output = NoArn
    /\ aws_calls = {}
    /\ permission_result = NotAsked
    /\ force \in BOOLEAN
    /\ skip_dynamodb \in BOOLEAN
    /\ confirmation \in Confirmations
    /\ matching_layers \in MatchingLayerLists
    /\ layer_idx = 0
    /\ deleted_versions = {}
    /\ deleted_records = {}
    /\ counts = NoCounts
    /\ dynamo_table \in TableAnswers
    /\ deleted_items = {}
    /\ NoOthers
    /\ pc = "delete_layers_main"

\* main up to the loop of delete_layers: the confirmation, then
\* `if not layers: return (0, 0, 0, 0)`
ConfirmDeletion ==
    /\ pc = "delete_layers_main"
    /\ IF ~dry_run /\ ~confirm_deletion(matching_layers, force, confirmation)
       THEN /\ pc' = "cancelled"
            /\ UNCHANGED layer_idx
       ELSE IF matching_layers = <<>>
       THEN /\ pc' = "deleted_done"
            /\ UNCHANGED layer_idx
       ELSE /\ pc' = "deleting"
            /\ layer_idx' = 1
    /\ UNCHANGED <<resolver_vars, build_inputs, included_components, deps_vars,
                   flow_vars, publisher_vars, force, skip_dynamodb, confirmation,
                   matching_layers, deleted_versions, deleted_records, counts,
                   dynamo_table, deleted_items, other_vars>>

\* one pass of `for idx, layer in enumerate(layers)` in delete_layers
DeleteLayer ==
    /\ pc = "deleting"
    /\ LET n == matching_layers[layer_idx]
           next_pc == IF layer_idx = Len(matching_layers) THEN "deleted_done"
                      ELSE "deleting"
           next_idx == IF layer_idx = Len(matching_layers) THEN layer_idx
                       ELSE layer_idx + 1
       IN  IF dry_run
           THEN /\ counts' =
                     [counts EXCEPT
                        !.lambda_success = @ + n,
                        !.dynamo_success = IF skip_dynamodb THEN @ ELSE @ + n]
                /\ pc' = next_pc
                /\ layer_idx' = next_idx
                /\ UNCHANGED <<deleted_versions, deleted_records, deleted_items>>
           ELSE \E client \in ClientOutcomes :
                  IF client = "raised"
                  THEN /\ pc' = "crashed"
                       /\ UNCHANGED <<layer_idx, deleted_versions, deleted_records,
                                      counts, deleted_items>>
                  ELSE IF client = "client_error"
                  THEN /\ counts' =
                            [counts EXCEPT
                               !.lambda_failure = @ + n,
                               !.dynamo_failure = IF skip_dynamodb THEN @ ELSE @ + n]
                       /\ pc' = next_pc
                       /\ layer_idx' = next_idx
                       /\ UNCHANGED <<deleted_versions, deleted_records,
                                      deleted_items>>
                  ELSE \E results \in [1..n -> VersionOutcomes] :
                         LET attempted == Attempted(results)
                             deleted == Deleted(results)
                             failed == {v \in attempted : results[v] = "client_error"}
                             records == IF skip_dynamodb THEN {} ELSE deleted
                             record == delete_dynamodb_record(dynamo_table)
                             kept == IF record.result THEN {} ELSE records
                         IN  /\ deleted_versions' = deleted_versions \cup
                                   {<<layer_idx, v>> : v \in attempted}
                             /\ deleted_records' = deleted_records \cup
                                   {<<layer_idx, v>> : v \in records}
                             /\ deleted_items' = deleted_items \cup
                                   {<<layer_idx, v>> : v \in
                                        IF record.deleting THEN records ELSE {}}
                             /\ counts' =
                                  [lambda_success |->
                                       counts.lambda_success + Cardinality(deleted),
                                   lambda_failure |->
                                       counts.lambda_failure + Cardinality(failed),
                                   dynamo_success |->
                                       counts.dynamo_success + Cardinality(records \ kept),
                                   dynamo_failure |->
                                       counts.dynamo_failure + Cardinality(kept)]
                             /\ IF \E v \in attempted : results[v] = "raised"
                                THEN /\ pc' = "crashed"
                                     /\ UNCHANGED layer_idx
                                ELSE /\ pc' = next_pc
                                     /\ layer_idx' = next_idx
    /\ UNCHANGED <<resolver_vars, build_inputs, included_components, deps_vars,
                   flow_vars, publisher_vars, force, skip_dynamodb, confirmation,
                   matching_layers, dynamo_table, other_vars>>

NextDeleteLayers ==
    \/ ConfirmDeletion
    \/ DeleteLayer

SpecDeleteLayers == InitDeleteLayers /\ [][NextDeleteLayers]_vars

\* C15: delete_layer_version and delete_dynamodb_record are invoked only when
\* --dry-run is off and --force is set or the user typed exactly DELETE; with
\* --dry-run nothing is deleted, and a declined confirmation ends the run
\* before any deletion.
C15_DeleteOnlyWhenConfirmed ==
    /\ (deleted_versions # {} \/ deleted_records # {}) =>
          ~dry_run /\ (force \/ confirmation = "DELETE")
    /\ (~dry_run /\ ~force /\ confirmation # "DELETE") =>
          pc \in {"delete_layers_main", "cancelled"}
    /\ pc = "cancelled" => deleted_versions = {} /\ deleted_records = {}

\* the user typed DELETE and versions and their records were deleted
C15_Witness ==
    /\ ~dry_run
    /\ ~force
    /\ confirmation = "DELETE"
    /\ pc = "deleted_done"
    /\ deleted_versions # {}
    /\ deleted_records # {}

\* C30: metadata of a new version is written only after publish_layer
\* returned an ARN and, with --make-public, only after make_layer_public
\* succeeded; a failed publish exits with status 1 and writes nothing, and a
\* failed make_layer_public leaves the metadata unwritten.
C30_MetadataAfterPublishAndPublic ==
    /\ "put_item" \in aws_calls =>
          /\ layer_arn = Arn("published", Len(layer_versions) + 1)
          /\ "publish_layer_version" \in aws_calls
          /\ make_public => permission_result \in {"already_public", "added"}
    /\ (~skip_publish /\ pc \notin {"publisher", "publish"} /\ layer_arn = NoArn) =>
          pc = "exit_1"
    /\ pc = "exit_1" => "put_item" \notin aws_calls

\* a new version was published and made public, and its metadata written
C30_Witness ==
    /\ pc = "published_done"
    /\ make_public
    /\ permission_result = "added"
    /\ aws_calls = MutatingCalls
    /\ layer_arn_output.kind = "published"

\* C26: without --dry-run and --skip-dynamodb, for each version whose Lambda
\* deletion succeeded the item keyed by its ARN is deleted through
\* delete_item, and when the table deletes it or holds no such item the
\* version is counted in dynamo_success and not in dynamo_failure.
C26_RecordDeletedAndCounted ==
    (~dry_run /\ ~skip_dynamodb /\ dynamo_table \in {"no_item", "item_deleted"}) =>
        /\ counts.dynamo_success = counts.lambda_success
        /\ counts.dynamo_failure = 0
        /\ dynamo_table = "item_deleted" =>
              Cardinality(deleted_items) = counts.lambda_success

----------------------------------------------------------------------------
(* resolve_build_tags called twice on one table *)

\* the ways to list the elements of a list again, in any order
Relisted(seq) ==
    IF seq = <<>> THEN {<<>>}
    ELSE {[i \in 1..Len(seq) |-> seq[p[i]]] : p \in Permutations(1..Len(seq))}

\* a distribution's mapping with its `buildtags` list in any order
RelistedInfos(info) ==
    IF info.buildtags.type = "list"
    THEN {[info EXCEPT !.buildtags = PyList(l)] : l \in Relisted(info.buildtags.items)}
    ELSE {info}

\* the tables that hold what t holds, each distribution's tags in any order
\* (the entries of a dict are reached by key only, whatever their order)
Relistings(t) ==
    {t2 \in [DOMAIN t -> UNION {RelistedInfos(t[n]) : n \in DOMAIN t}] :
        \A n \in DOMAIN t : t2[n] \in RelistedInfos(t[n])}

InitRepeat == InitResolve

\* a second resolve_build_tags(distribution_name, distributions_data) on the
\* table as the first call left it, or on that table listed anew
ResolveBuildTagsAgain ==
    /\ pc = "resolved"
    /\ \E table \in Relistings(distributions_data) :
         /\ relisted_data' = table
         /\ second_outcome' = resolve_build_tags(distribution_name, table, {})
    /\ pc' = "resolved_twice"
    /\ UNCHANGED <<resolver_vars, build_inputs, included_components, deps_vars,
                   flow_vars, publisher_vars, delete_vars, descent_vars,
                   concurrent_vars, tool_vars>>

NextRepeat ==
    \/ ResolveBuildTags
    \/ ResolveBuildTagsAgain

SpecRepeat == InitRepeat /\ [][NextRepeat]_vars

\* C21: two calls of resolve_build_tags with the same name and the same
\* table yield the identical outcome (the same sorted tag list, or an error
\* of the same kind at the same distribution), whatever the order in which
\* the tags of a distribution are listed.
C21_SecondCallSameOutcome ==
    pc = "resolved_twice" => second_outcome = outcome

\* the second call read a table whose tags are listed in another order, and
\* both calls returned the tags of a base and of the distribution itself
C21_Witness ==
    /\ pc = "resolved_twice"
    /\ relisted_data # distributions_data
    /\ outcome.ok
    /\ outcome.depth = 2
    /\ Len(outcome.tags) = 2

----------------------------------------------------------------------------
(* resolve_build_tags followed call by call *)

\* a call in progress: its distribution_name and its visited set on entry
Frame(name, visited) == [name |-> name, visited |-> visited]

\* the stack without its innermost call
Caller(stack) == SubSeq(stack, 1, Len(stack) - 1)

InitDescent ==
    /\ distribution_name \in RequestedNames
    /\ IsTableFor(distributions_data, distribution_name)
    /\ outcome = NoOutcome
    /\ caller_visited = {}
    /\ active_build_tags = <<>>
    /\ dependency_mappings = <<>>
    /\ upstream_version = ""
    /\ included_components = <<>>
    /\ go_mod_edits = {}
    /\ success_count = 0
    /\ go_mod_tidy = FALSE
    /\ go_mod_crashed = FALSE
    /\ NoFlow
    /\ NoRepeat
    /\ NoConcurrent
    /\ NoTools
    /\ call_stack = <<Frame(distribution_name, {})>>
    /\ returning = NoOutcome
    /\ pc = "calling"

\* the innermost call runs up to its recursive call, which it makes, or to
\* its end when it makes none: it raises, or returns its own tags
EnterCall ==
    /\ pc = "calling"
    /\ LET frame == call_stack[Len(call_stack)]
           name == frame.name
           dist_info == distributions_data[name]
           base_name == DictGet(dist_info.base)
           ended ==
               IF InVisited(name, frame.visited) THEN CircularDependencyError(name)
               ELSE IF NotFound(name, distributions_data) THEN NotFoundError(name)
               ELSE IF ~HasBase(base_name)
               THEN OwnTags(name, dist_info, <<>>, 1)
               ELSE InvalidBaseError(name)
           recurses ==
               /\ ~InVisited(name, frame.visited)
               /\ ~NotFound(name, distributions_data)
               /\ HasBase(base_name)
               /\ IsStr(base_name)
       IN  IF recurses
           THEN /\ call_stack' =
                      Append(call_stack,
                             Frame(base_name.str, frame.visited \cup {name}))
                /\ UNCHANGED <<returning, outcome, pc>>
           ELSE /\ call_stack' = Caller(call_stack)
                /\ returning' = ended
                /\ outcome' = IF call_stack' = <<>> THEN ended ELSE outcome
                /\ pc' = IF call_stack' = <<>> THEN "resolved" ELSE "unwinding"
    /\ UNCHANGED <<distributions_data, distribution_name, caller_visited, build_inputs,
                   included_components, deps_vars, flow_vars, publisher_vars,
                   delete_vars, repeat_vars, concurrent_vars, tool_vars>>

\* the innermost call goes on after its recursive call: it wraps the error
\* of its base, or merges the base's tags with its own
ReturnToCaller ==
    /\ pc = "unwinding"
    /\ LET frame == call_stack[Len(call_stack)]
           name == frame.name
           dist_info == distributions_data[name]
           ended ==
               IF returning.ok
               THEN OwnTags(name, dist_info, returning.tags, returning.depth + 1)
               ELSE WrapError(returning, name, DictGet(dist_info.base).str)
       IN  /\ call_stack' = Caller(call_stack)
           /\ returning' = ended
           /\ outcome' = IF call_stack' = <<>> THEN ended ELSE outcome
           /\ pc' = IF call_stack' = <<>> THEN "resolved" ELSE "unwinding"
    /\ UNCHANGED <<distributions_data, distribution_name, caller_visited, build_inputs,
                   included_components, deps_vars, flow_vars, publisher_vars,
                   delete_vars, repeat_vars, concurrent_vars, tool_vars>>

NextDescent ==
    \/ EnterCall
    \/ ReturnToCaller

SpecDescent == InitDescent /\ [][NextDescent]_vars

\* C24: resolve_build_tags terminates on every finite table, cyclic or not:
\* the calls in progress never number more than the table's entries plus
\* one, a call in progress can always take its next step, and the outermost
\* call ends with a tag list or an error.
C24_BoundedRecursion ==
    /\ Len(call_stack) <= Cardinality(DOMAIN distributions_data) + 1
    /\ pc \in {"calling", "unwinding"} => ENABLED NextDescent
    /\ pc = "resolved" =>
          /\ call_stack = <<>>
          /\ outcome.ok \/ outcome.kind \in {"circular", "not_found", "bad_base",
                                             "bad_buildtags"}
          /\ outcome = resolve_build_tags(distribution_name, distributions_data, {})
          /\ outcome.depth <= Cardinality(DOMAIN distributions_data) + 1

\* a cycle through every entry of the table: the calls in progress number
\* the entries plus one when the cycle is detected
C24_Witness ==
    /\ pc = "calling"
    /\ Cardinality(DOMAIN distributions_data) = 3
    /\ Len(call_stack) = 4
    /\ call_stack[4].name = distribution_name

----------------------------------------------------------------------------
(* Further claims on the selector and on add_dependencies *)

\* the active tags hold a wildcard <domain>.all, of whatever domain
AnyDomainAllActive == \E t \in ActiveSet : Len(t) = 2 /\ t[2] = "all"

\* C22: a tag <domain>.all of any domain, not only lambdacomponents, among
\* the active tags makes resolve_components_by_tags include every key of the
\* mapping, whatever the key's category.
C22_AnyDomainGlobalWildcard ==
    (Selected /\ AnyDomainAllActive) => IncludedSet = KeySet

\* the value declares zero dependencies: an empty list or an empty string
ZeroDependencies(value) ==
    \/ value.type = "list" /\ value.items = <<>>
    \/ value.type = "str" /\ value.str = ""

\* C23: a component declared with an empty list or an empty string is
\* included whenever an inclusion rule matches it (here: it is an active tag,
\* or the global wildcard is active), and when every included component
\* declares zero dependencies add_dependencies attempts no `go mod edit
\* -require`, adds no module and does not run `go mod tidy`.
C23_ZeroDependenciesNoEdit ==
    /\ Selected =>
          \A i \in 1..Len(dependency_mappings) :
              (/\ ZeroDependencies(dependency_mappings[i].value)
               /\ \/ dependency_mappings[i].key \in ActiveSet
                  \/ GlobalAllTag \in ActiveSet)
                  => dependency_mappings[i].key \in IncludedSet
    /\ (/\ pc = "deps_done"
        /\ \A i \in 1..Len(dependency_mappings) :
              dependency_mappings[i].key \in IncludedSet =>
                  ZeroDependencies(dependency_mappings[i].value))
          => /\ go_mod_edits = {}
             /\ success_count = 0
             /\ ~go_mod_tidy

----------------------------------------------------------------------------
(* Concurrent invocations on one table, and on one dependency mapping *)

\* a distribution's mapping as the concurrent runs draw it
SharedInfos ==
    [base : {PyAbsent} \cup {PyStr(n) : n \in DistNames},
     buildtags : {PyList(<<"tag1">>), PyList(<<"tag2", "tag1">>), PyStr("notalist")}]

\* the shared tables: any of the names defined, or not
SharedTables ==
    UNION {[names -> SharedInfos] : names \in SUBSET DistNames}

\* The set objects: <<i, d>> is the `visited` of invocation i's call at
\* depth d; <<0, 0>> would be a set that belongs to no invocation
SetObjects == (Invocations \cup {0}) \X (0..(Cardinality(DistNames) + 1))

\* `if visited is None: visited = set()`: a set of the invocation's own
DefaultVisitedShared(i) == <<0, 0>>
DefaultVisited(i) == <<i, 0>>

\* a call in progress whose `visited` is the set object ref
FrameOn(name, ref) == [name |-> name, ref |-> ref]

\* a run that loads no file and adds no dependency
NoBuildSteps ==
    /\ distribution_name = ""
    /\ outcome = NoOutcome
    /\ caller_visited = {}
    /\ upstream_version = ""
    /\ included_components = <<>>
    /\ go_mod_edits = {}
    /\ success_count = 0
    /\ go_mod_tidy = FALSE
    /\ go_mod_crashed = FALSE
    /\ NoFlow
    /\ NoRepeat
    /\ NoDescent
    /\ NoTools

\* two invocations of resolve_build_tags on one table
InitConcurrentResolve ==
    /\ NoBuildSteps
    /\ distributions_data \in SharedTables
    /\ active_build_tags = <<>>
    /\ dependency_mappings = <<>>
    /\ requests \in [Invocations -> RequestedNames]
    /\ visited_sets = [ref \in SetObjects |-> {}]
    /\ stacks = [i \in Invocations |-> <<FrameOn(requests[i], DefaultVisited(i))>>]
    /\ returnings = [i \in Invocations |-> NoOutcome]
    /\ outcomes = [i \in Invocations |-> NoOutcome]
    /\ key_index = [i \in Invocations |-> 0]
    /\ included_lists = [i \in Invocations |-> <<>>]
    /\ position = [i \in Invocations |-> "calling"]
    /\ pc = "concurrent"

\* two invocations of resolve_components_by_tags on one mapping, each with
\* its own active tags
InitConcurrentSelect ==
    /\ NoBuildSteps
    /\ distributions_data = EmptyTable
    /\ active_build_tags \in ActiveTagLists
    /\ \E ks \in KeyLists : dependency_mappings = MappingOf(ks)
    /\ requests = [i \in Invocations |-> ""]
    /\ visited_sets = <<>>
    /\ stacks = [i \in Invocations |-> <<>>]
    /\ returnings = [i \in Invocations |-> NoOutcome]
    /\ outcomes = [i \in Invocations |-> NoOutcome]
    /\ key_index = [i \in Invocations |-> 1]
    /\ included_lists = [i \in Invocations |-> <<>>]
    /\ position = [i \in Invocations |-> "selecting"]
    /\ pc = "concurrent"

InitConcurrent == InitConcurrentResolve \/ InitConcurrentSelect

\* The active tags of a selector invocation: the first has the build's, the
\* second those in reverse order (another build of the same mapping)
ActiveTagsOf(i) ==
    IF i = 1 THEN active_build_tags
    ELSE [j \in 1..Len(active_build_tags) |->
              active_build_tags[Len(active_build_tags) + 1 - j]]

\* invocation i's innermost call runs up to its recursive call or to its
\* end: the membership test, visited.add on its set, visited.copy() for the
\* nested call
EnterCallOf(i) ==
    /\ position[i] = "calling"
    /\ LET stack == stacks[i]
           frame == stack[Len(stack)]
           name == frame.name
           visited == visited_sets[frame.ref]
           dist_info == distributions_data[name]
           base_name == DictGet(dist_info.base)
           raises_first ==
               InVisited(name, visited) \/ NotFound(name, distributions_data)
           ended ==
               IF InVisited(name, visited) THEN CircularDependencyError(name)
               ELSE IF NotFound(name, distributions_data) THEN NotFoundError(name)
               ELSE IF ~HasBase(base_name)
               THEN OwnTags(name, dist_info, <<>>, 1)
               ELSE InvalidBaseError(name)
           recurses == ~raises_first /\ HasBase(base_name) /\ IsStr(base_name)
           copy == <<i, Len(stack)>>
           added == IF raises_first THEN visited_sets
                    ELSE [visited_sets EXCEPT ![frame.ref] = @ \cup {name}]
       IN  IF recurses
           THEN /\ visited_sets' = [added EXCEPT ![copy] = added[frame.ref]]
                /\ stacks' = [stacks EXCEPT
                                ![i] = Append(stack, FrameOn(base_name.str, copy))]
                /\ UNCHANGED <<returnings, outcomes, position>>
           ELSE /\ visited_sets' = added
                /\ stacks' = [stacks EXCEPT ![i] = Caller(stack)]
                /\ returnings' = [returnings EXCEPT ![i] = ended]
                /\ outcomes' = IF Len(stack) = 1
                               THEN [outcomes EXCEPT ![i] = ended] ELSE outcomes
                /\ position' = [position EXCEPT
                                  ![i] = IF Len(stack) = 1 THEN "done" ELSE "unwinding"]
    /\ UNCHANGED <<distributions_data, distribution_name, outcome, caller_visited,
                   build_inputs, included_components, deps_vars, flow_vars,
                   publisher_vars, delete_vars, repeat_vars, descent_vars, tool_vars, requests,
                   key_index, included_lists, pc>>

\* invocation i's innermost call goes on after its recursive call
ReturnToCallerOf(i) ==
    /\ position[i] = "unwinding"
    /\ LET stack == stacks[i]
           frame == stack[Len(stack)]
           name == frame.name
           dist_info == distributions_data[name]
           ended ==
               IF returnings[i].ok
               THEN OwnTags(name, dist_info, returnings[i].tags, returnings[i].depth + 1)
               ELSE WrapError(returnings[i], name, DictGet(dist_info.base).str)
       IN  /\ stacks' = [stacks EXCEPT ![i] = Caller(stack)]
           /\ returnings' = [returnings EXCEPT ![i] = ended]
           /\ outcomes' = IF Len(stack) = 1
                          THEN [outcomes EXCEPT ![i] = ended] ELSE outcomes
           /\ position' = [position EXCEPT
                             ![i] = IF Len(stack) = 1 THEN "done" ELSE "unwinding"]
    /\ UNCHANGED <<distributions_data, distribution_name, outcome, caller_visited,
                   build_inputs, included_components, deps_vars, flow_vars,
                   publisher_vars, delete_vars, repeat_vars, descent_vars, tool_vars, requests,
                   visited_sets, key_index, included_lists, pc>>

\* one pass of invocation i's `for component_tag in dependency_mappings.keys()`
SelectKeyOf(i) ==
    /\ position[i] = "selecting"
    /\ IF key_index[i] > Len(dependency_mappings)
       THEN /\ position' = [position EXCEPT ![i] = "done"]
            /\ UNCHANGED <<key_index, included_lists>>
       ELSE LET component_tag == dependency_mappings[key_index[i]].key
            IN  /\ included_lists' =
                      IF should_include(component_tag, ActiveTagsOf(i))
                      THEN [included_lists EXCEPT ![i] = Append(@, component_tag)]
                      ELSE included_lists
                /\ key_index' = [key_index EXCEPT ![i] = @ + 1]
                /\ UNCHANGED position
    /\ UNCHANGED <<distributions_data, distribution_name, outcome, caller_visited,
                   build_inputs, included_components, deps_vars, flow_vars,
                   publisher_vars, delete_vars, repeat_vars, descent_vars, tool_vars, requests,
                   visited_sets, stacks, returnings, outcomes, pc>>

NextConcurrent ==
    \/ \E i \in Invocations : EnterCallOf(i)
    \/ \E i \in Invocations : ReturnToCallerOf(i)
    \/ \E i \in Invocations : SelectKeyOf(i)

SpecConcurrent == InitConcurrent /\ [][NextConcurrent]_vars

\* C25: concurrent invocations of resolve_build_tags on one table, and of
\* resolve_components_by_tags on one mapping, do not interfere: under every
\* interleaving each invocation ends with the outcome it has when run alone.
C25_NoInterference ==
    \A i \in Invocations :
        /\ (position[i] = "done" /\ requests[i] # "") =>
              outcomes[i] = resolve_build_tags(requests[i], distributions_data, {})
        /\ (position[i] = "done" /\ requests[i] = "") =>
              included_lists[i] =
                  resolve_components_by_tags(ActiveTagsOf(i), dependency_mappings)

\* both invocations resolved the same distribution through its base while
\* the other was in progress, and both returned
C25_Witness ==
    /\ requests[1] = requests[2]
    /\ requests[1] # ""
    /\ position[1] = "done"
    /\ position[2] = "done"
    /\ outcomes[1].ok
    /\ outcomes[1].depth = 2
    /\ visited_sets[<<1, 1>>] # {}
    /\ visited_sets[<<2, 1>>] # {}

----------------------------------------------------------------------------
(* run_command, step by step: the temporary files are created, the command *)
(* runs, its result is reported, the two files are read and removed        *)

InitRunCommand ==
    /\ NoBuild
    /\ NoPublisher
    /\ NoDelete
    /\ NoRepeat
    /\ NoDescent
    /\ NoConcurrent
    /\ NoLocalBuild
    /\ check \in BOOLEAN
    /\ capture_github_env \in BOOLEAN
    /\ command \in Commands
    /\ temp_files = NoFiles
    /\ github_env_vars = NoVars
    /\ command_result = "not_called"
    /\ pc = "run_command"

\* `if capture_github_env:` two NamedTemporaryFile(delete=False), closed empty
CreateTempFiles ==
    /\ pc = "run_command"
    /\ temp_files' = IF capture_github_env
                     THEN [f \in {GithubEnvFile, GithubOutputFile} |-> <<>>]
                     ELSE NoFiles
    /\ pc' = "subprocess_run"
    /\ UNCHANGED <<check, capture_github_env, command, github_env_vars, command_result,
                   not_command_vars>>

\* subprocess.run(cmd, ..., check=False): a command that cannot be started
\* raises out of run_command; one that runs appends its lines to the files
\* GITHUB_ENV and GITHUB_OUTPUT name
RunSubprocess ==
    /\ pc = "subprocess_run"
    /\ IF ~command.starts
       THEN /\ command_result' = "FileNotFoundError"
            /\ pc' = "command_ended"
            /\ UNCHANGED temp_files
       ELSE /\ temp_files' =
                  [f \in DOMAIN temp_files |->
                      temp_files[f] \o (IF f = GithubEnvFile THEN command.env_lines
                                        ELSE command.output_lines)]
            /\ pc' = "handle_output"
            /\ UNCHANGED command_result
    /\ UNCHANGED <<check, capture_github_env, command, github_env_vars,
                   not_command_vars>>

\* `failed = process.returncode != 0` and the final status: success, or
\* `elif check:` raise CalledProcessError, or a warning
HandleOutput ==
    /\ pc = "handle_output"
    /\ LET failed == command.returncode # 0
       IN  IF failed /\ check
           THEN /\ command_result' = "CalledProcessError"
                /\ pc' = "command_ended"
           ELSE IF capture_github_env
           THEN /\ pc' = "parse_github_env"
                /\ UNCHANGED command_result
           ELSE /\ command_result' = "returned"
                /\ pc' = "command_ended"
    /\ UNCHANGED <<check, capture_github_env, command, temp_files, github_env_vars,
                   not_command_vars>>

\* the files of the loop, in its order, and where the run is at each
GithubFiles == <<GithubEnvFile, GithubOutputFile>>

ParsePositions == <<"parse_github_env", "parse_github_output">>

\* one round of the loop over the two files: try to parse, finally unlink;
\* after the second round `return process, github_env_vars`
ParseAndRemove ==
    \E i \in DOMAIN GithubFiles :
        /\ pc = ParsePositions[i]
        /\ github_env_vars' = parse_github_file(temp_files, GithubFiles[i], github_env_vars)
        /\ temp_files' = unlink(temp_files, GithubFiles[i])
        /\ IF i < Len(GithubFiles)
           THEN /\ pc' = ParsePositions[i + 1]
                /\ UNCHANGED command_result
           ELSE /\ pc' = "command_ended"
                /\ command_result' = "returned"
        /\ UNCHANGED <<check, capture_github_env, command, not_command_vars>>

NextRunCommand ==
    \/ CreateTempFiles
    \/ RunSubprocess
    \/ HandleOutput
    \/ ParseAndRemove

SpecRunCommand == InitRunCommand /\ [][NextRunCommand]_vars

\* C27: when run_command was called with capture_github_env=True and has
\* ended, by returning or by raising, neither of the two temporary files it
\* created exists any more
C27_TempFilesRemoved ==
    (pc = "command_ended" /\ capture_github_env) => DOMAIN temp_files = {}

----------------------------------------------------------------------------
(* The local build: main of tools/ocelot.py and the step functions of      *)
(* tools/local_build. A step function works on the context, the tracker    *)
(* and the temporary directory, and ends by returning or by raising; what  *)
(* the world outside answers (git, make, the build script, AWS) is an      *)
(* input of the step. The step functions are entry points of their own     *)
(* too: a caller other than main hands them a context it prepared.         *)

\* what a step function works on
Run(c, t, started, dir, exc) ==
    [context |-> c, tracker |-> t, started |-> started, dir |-> dir, raised |-> exc]

\* `raise`
Raise(run, exc) == [run EXCEPT !.raised = exc]

\* context.<setter>(value): AttributeError when BuildContext defines no such
\* method
call_setter(run, setter) ==
    IF setter \in DOMAIN BuildContextSetters
    THEN [run EXCEPT !.context = [@ EXCEPT ![BuildContextSetters[setter]] = TRUE]]
    ELSE Raise(run, Error("AttributeError"))

\* StepTracker.start_step
start_step(run, index) ==
    IF index \in BuildSteps
    THEN [run EXCEPT !.tracker = [@ EXCEPT ![index] = "running"],
                     !.started = Append(@, index)]
    ELSE run

\* StepTracker.complete_step
complete_step(run, index) ==
    IF index \in BuildSteps
    THEN [run EXCEPT !.tracker = [@ EXCEPT ![index] = "complete"]]
    ELSE run

\* StepTracker.fail_step
fail_step(run, index) ==
    IF index \in BuildSteps
    THEN [run EXCEPT !.tracker = [@ EXCEPT ![index] = "failed"]]
    ELSE run

\* the functions LOCAL_BUILD_INJECT_ERROR can name
InjectTargets ==
    {"load_distributions", "clone_repository", "determine_upstream_version",
     "determine_build_tags", "build_layer", "verify_credentials", "publish_layer"}

\* the wrapper of @inject_error(step_index): the simulated TerminateApp when
\* the variable names the function, the function itself otherwise
inject_error(func_name, step_index, target, run, returned) ==
    IF target # "" /\ target = func_name
    THEN Raise(run, TerminateApp(step_index, TRUE))
    ELSE returned

\* how loading config/distributions.yaml ends
Loadings == {"loaded", "error"}

\* load_distributions(context) of local_build/config.py
config_load_distributions(run, target, loading) ==
    inject_error("load_distributions", None, target, run,
        IF loading = "error"
        THEN Raise(run, TerminateApp(None, FALSE))
        ELSE call_setter(call_setter(run, "set_distributions_data"),
                         "set_distribution_description_from_config"))

\* what determine_upstream_version finds in the clone
VersionFindings ==
    {"no_makefile", "make_failed", "no_version_file", "empty_version", "version"}

\* determine_upstream_version(context, tracker)
determine_upstream_version(run, target, version) ==
    inject_error("determine_upstream_version", 1, target, run,
        IF ~run.context.temp_upstream_dir
        THEN Raise(run, Error("TypeError"))
        ELSE LET started == start_step(run, 1)
                 found == IF run.dir = "exists" THEN version ELSE "no_makefile"
             IN  IF found = "version"
                 THEN complete_step(call_setter(started, "set_upstream_version"), 1)
                 ELSE Raise(started, TerminateApp(1, TRUE)))

\* how `git clone` ends
Clonings == {"cloned", "failed"}

\* clone_repository(context, tracker)
clone_repository(run, target, cloning, version) ==
    inject_error("clone_repository", 0, target, run,
        LET started == start_step(run, 0)
            made == [call_setter(started, "set_temp_dir") EXCEPT !.dir = "exists"]
        IN  IF cloning = "failed"
            THEN Raise(made, TerminateApp(0, TRUE))
            ELSE determine_upstream_version(complete_step(made, 0), target, version))

\* how resolve_build_tags ends
Resolvings == {"resolved", "DistributionError", "error"}

\* determine_build_tags(context, tracker)
determine_build_tags(run, target, resolving) ==
    inject_error("determine_build_tags", 2, target, run,
        LET started == start_step(run, 2)
            tags == call_setter(started, "set_build_tags")
            config == call_setter(tags, "set_config_file")
        IN  IF ~run.context.distributions_data \/ resolving # "resolved"
            THEN Raise(started, TerminateApp(2, TRUE))
            ELSE IF config.raised # NoException
            THEN Raise(tags, TerminateApp(2, TRUE))
            ELSE complete_step(config, 2))

\* how the build script ends
Buildings == {"built", "failed", "no_layer_file"}

\* build_layer(context, tracker)
build_layer(run, target, building) ==
    inject_error("build_layer", 3, target, run,
        LET started == start_step(run, 3)
        IN  IF building = "built"
            THEN complete_step(call_setter(started, "set_layer_file"), 3)
            ELSE Raise(started, TerminateApp(3, TRUE)))

\* how the credential and region checks end
Verifyings == {"verified", "no_credentials", "no_region"}

\* verify_credentials(context, tracker)
verify_credentials(run, target, verifying) ==
    inject_error("verify_credentials", 4, target, run,
        IF verifying = "verified"
        THEN call_setter(call_setter(run, "set_aws_region"), "set_dynamodb_region")
        ELSE Raise(run, TerminateApp(4, TRUE)))

\* how the publisher script ends: with the layer ARN among the captured
\* variables, without it, or failing
Publishings == {"arn", "no_arn", "failed"}

\* publish_layer(context, tracker); without a captured ARN the fallback
\* searches publish_result.stdout, which is None as the output was not
\* captured, and the TypeError ends in `except Exception`
publish_layer(run, target, publishing) ==
    inject_error("publish_layer", 4, target, run,
        IF run.context.skip_publish
        THEN complete_step(run, 4)
        ELSE LET started == start_step(run, 4)
             IN  IF publishing = "arn"
                 THEN complete_step(call_setter(started, "set_layer_arn"), 4)
                 ELSE Raise(started, TerminateApp(4, TRUE)))

\* generate_summary(context, start_time)
generate_summary(run) == run

\* cleanup_temp_dir(context)
cleanup_temp_dir(run) ==
    IF run.context.temp_upstream_dir /\ run.dir = "exists"
    THEN IF run.context.keep_temp THEN run ELSE [run EXCEPT !.dir = "removed"]
    ELSE run

\* what main calls after a call that returned
FollowedBy(name, c) ==
    CASE name = "load_distributions" -> "clone_repository"
      [] name = "clone_repository" -> "determine_build_tags"
      [] name = "determine_build_tags" -> "build_layer"
      [] name = "build_layer" ->
            IF ~c.skip_publish THEN "verify_credentials" ELSE "generate_summary"
      [] name = "verify_credentials" -> "publish_layer"
      [] name = "publish_layer" -> "generate_summary"
      [] OTHER -> "cleanup_temp_dir"

\* the functions a caller invokes
Entries ==
    {"main", "load_distributions", "clone_repository", "determine_upstream_version",
     "determine_build_tags", "build_layer", "verify_credentials", "publish_layer",
     "generate_summary", "cleanup_temp_dir"}

\* the context of the run: main builds a BuildContext from its options; a
\* caller of a step function may have given it a temporary directory and
\* distributions data
Contexts(e) ==
    IF e \in {"main", "clone_repository"}
    THEN { BuildContext(k, s) : k \in BOOLEAN, s \in BOOLEAN }
    ELSE { [BuildContext(k, s) EXCEPT !.temp_upstream_dir = t, !.distributions_data = d] :
             k \in BOOLEAN, s \in BOOLEAN, t \in BOOLEAN, d \in BOOLEAN }

InitLocalBuild ==
    /\ NoBuild
    /\ NoPublisher
    /\ NoDelete
    /\ NoRepeat
    /\ NoDescent
    /\ NoConcurrent
    /\ NoCommand
    /\ entry \in Entries
    /\ inject_error_target \in InjectTargets \cup {""}
    /\ context \in Contexts(entry)
    /\ temp_upstream_dir \in
          (IF context.temp_upstream_dir THEN {"absent", "exists"} ELSE {"absent"})
    /\ tracker = StepTracker
    /\ started_steps = <<>>
    /\ raised = NoException
    /\ exit_code = NotExited
    /\ calls = <<>>
    /\ pc = IF entry = "main" THEN "load_distributions" ELSE entry

\* the state a call starts from
ThisRun == Run(context, tracker, started_steps, temp_upstream_dir, NoException)

\* the call `name` ended as `run`: in main the next call follows, or the
\* except clauses when it raised; a step function called on its own is back
\* at its caller
Ends(name, run) ==
    /\ context' = run.context
    /\ tracker' = run.tracker
    /\ started_steps' = run.started
    /\ temp_upstream_dir' = run.dir
    /\ raised' = run.raised
    /\ calls' = Append(calls, name)
    /\ pc' = IF entry # "main" THEN "local_build_ended"
             ELSE IF run.raised # NoException THEN "except"
             ELSE FollowedBy(name, run.context)
    /\ UNCHANGED <<entry, inject_error_target, exit_code, not_local_build_vars>>

\* Step 0 of main: context = load_distributions(context)
LoadDistributions ==
    /\ pc = "load_distributions"
    /\ \E loading \in Loadings :
          Ends("load_distributions",
               config_load_distributions(ThisRun, inject_error_target, loading))

\* Step 1 of main: context = clone_repository(context, tracker)
CloneRepository ==
    /\ pc = "clone_repository"
    /\ \E cloning \in Clonings, version \in VersionFindings :
          Ends("clone_repository",
               clone_repository(ThisRun, inject_error_target, cloning, version))

\* determine_upstream_version called on its own
DetermineUpstreamVersion ==
    /\ pc = "determine_upstream_version"
    /\ \E version \in VersionFindings :
          Ends("determine_upstream_version",
               determine_upstream_version(ThisRun, inject_error_target, version))

\* Step 2 of main: context = determine_build_tags(context, tracker)
DetermineBuildTags ==
    /\ pc = "determine_build_tags"
    /\ \E resolving \in Resolvings :
          Ends("determine_build_tags",
               determine_build_tags(ThisRun, inject_error_target, resolving))

\* Step 3 of main: context = build_layer(context, tracker)
BuildLayer ==
    /\ pc = "build_layer"
    /\ \E building \in Buildings :
          Ends("build_layer", build_layer(ThisRun, inject_error_target, building))

\* Step 4 of main, `if not context.skip_publish:` verify_credentials
VerifyCredentials ==
    /\ pc = "verify_credentials"
    /\ \E verifying \in Verifyings :
          Ends("verify_credentials",
               verify_credentials(ThisRun, inject_error_target, verifying))

\* Step 4 of main: context = publish_layer(context, tracker)
PublishBuiltLayer ==
    /\ pc = "publish_layer"
    /\ \E publishing \in Publishings :
          Ends("publish_layer",
               publish_layer(ThisRun, inject_error_target, publishing))

\* Step 5 of main: generate_summary(context, start_time)
GenerateSummary ==
    /\ pc = "generate_summary"
    /\ Ends("generate_summary", generate_summary(ThisRun))

\* `except TerminateApp as e:` the step is marked failed when the exception
\* carries a step index and a step message, then sys.exit(e.exit_code)
ExceptTerminateApp ==
    /\ pc = "except"
    /\ raised.type = "TerminateApp"
    /\ tracker' = IF raised.step_index # None /\ raised.step_message
                  THEN fail_step(ThisRun, raised.step_index).tracker
                  ELSE tracker
    /\ exit_code' = raised.exit_code
    /\ pc' = "cleanup_temp_dir"
    /\ UNCHANGED <<entry, inject_error_target, context, started_steps,
                   temp_upstream_dir, raised, calls, not_local_build_vars>>

\* `except Exception as e:` sys.exit(1); no step function lets a
\* CalledProcessError out, so that its clause, which does the same, is never
\* the one taken
ExceptException ==
    /\ pc = "except"
    /\ raised.type # "TerminateApp"
    /\ exit_code' = 1
    /\ pc' = "cleanup_temp_dir"
    /\ UNCHANGED <<entry, inject_error_target, context, tracker, started_steps,
                   temp_upstream_dir, raised, calls, not_local_build_vars>>

\* `finally: cleanup_temp_dir(context)`, after which the process ends: with
\* the code given to sys.exit, or with 0 when main returned; and
\* cleanup_temp_dir called on its own
CleanupTempDir ==
    /\ pc = "cleanup_temp_dir"
    /\ temp_upstream_dir' = cleanup_temp_dir(ThisRun).dir
    /\ calls' = Append(calls, "cleanup_temp_dir")
    /\ exit_code' = IF entry = "main" /\ exit_code = NotExited THEN 0 ELSE exit_code
    /\ pc' = "local_build_ended"
    /\ UNCHANGED <<entry, inject_error_target, context, tracker, started_steps,
                   raised, not_local_build_vars>>

NextLocalBuild ==
    \/ LoadDistributions
    \/ CloneRepository
    \/ DetermineUpstreamVersion
    \/ DetermineBuildTags
    \/ BuildLayer
    \/ VerifyCredentials
    \/ PublishBuiltLayer
    \/ GenerateSummary
    \/ ExceptTerminateApp
    \/ ExceptException
    \/ CleanupTempDir

SpecLocalBuild == InitLocalBuild /\ [][NextLocalBuild]_vars

C29_StepsInOrderUntilFirstFailure ==
    (entry = "main" /\ pc = "local_build_ended") =>
        LET failed == {i \in BuildSteps : tracker[i] = "failed"}
            order == <<0, 1, 2, 3, 4>>
        IN  /\ Len(started_steps) <= Len(order)
            /\ \A i \in 1..Len(started_steps) : started_steps[i] = order[i]
            /\ \/ raised.type = "TerminateApp" /\ raised.step_index = None
               \/ \E k \in BuildSteps :
                     /\ raised.type = "TerminateApp"
                     /\ raised.step_index = k
                     /\ failed = {k}
                     /\ \A j \in BuildSteps : j < k => tracker[j] = "complete"
                     /\ \A j \in BuildSteps : j > k => tracker[j] = "pending"
                     /\ exit_code = raised.exit_code
               \/ /\ raised = NoException
                  /\ \A j \in 0..3 : tracker[j] = "complete"
                  /\ tracker[4] = IF context.skip_publish THEN "pending" ELSE "complete"
                  /\ exit_code = 0

====
